---------------------------- MODULE Spec2Model ----------------------------
(***************************************************************************)
(* The real-time price streaming clients of the dashboard:                 *)
(*   PriceStream       (src/app/ws_client.py)                              *)
(*   WebSocketManager  (src/app/websocket_manager.py)                      *)
(* One client object is modelled; impl says which class it is.  The        *)
(* foreground (UI) thread calls start/stop, every start that launches      *)
(* creates a background unit (a thread with its own asyncio loop and its   *)
(* own Event), and the exchange feed is the environment.                   *)
(*                                                                         *)
(* Python runs the threads under the interpreter lock: a step of the model *)
(* is a run of statements with no await in it, cut where another thread's  *)
(* write can change what the rest of the run reads.                        *)
(***************************************************************************)
EXTENDS Integers, Sequences, FiniteSets, TLC

\* ------------------------------------------------------------------ bounds
MaxUnits  == 2      \* background units launched in one run
MaxFrames == 1      \* frames the feed delivers in a run of Spec
MaxFails  == 1      \* handshake failures the feed injects in a run of Spec
MaxPoints == 2      \* buffer capacity N (max_points / max_price_history)
SessionFrames == 3  \* frames the feed delivers in a run of SpecSession
ReadFrames    == 2  \* frames the feed delivers in a run of SpecRead
BackoffFails  == 6  \* handshake failures the feed injects in a run of SpecBackoff
ChangePoints  == 3  \* samples in the buffers get_price_change is applied to
MaxPct        == 60 \* largest percentage formatted, in thousandths
MaxStreams    == 3  \* PriceStream objects one UI session creates in a run
MaxWait       == 3  \* largest wait_time given to debounce, in clock ticks
MaxTime       == 4  \* clock ticks that pass in a run of SpecDebounce
MaxCalls      == 4  \* calls of the debounced function in a run
MaxUpdates    == 3  \* per-symbol updates the background records in a run

\* --------------------------------------------------------- program constants
InitialBackoff == 1
MaxBackoff     == 30
MaxRetries     == 3                \* get_top_symbols: max_retries
DefaultMaxPoints == 300            \* PriceStream(max_points=300); MaxPoints stands for it

None    == 0                       \* Python's None for a handle (unit ids are >= 1)
Units   == 1 .. MaxUnits
Symbols == {"btcusdt", "ethusdt"}
NoSymbol == "None"
\* The symbols as start() may be given them: one pair also in capitals.
CaseSymbols == {"btcusdt", "BTCUSDT", "ethusdt"}
\* str.lower()
Lower(sym) == CASE sym = "BTCUSDT" -> "btcusdt"
                [] sym = "ETHUSDT" -> "ethusdt"
                [] OTHER -> sym

Impls == {"PriceStream", "WebSocketManager"}
\* The foreground contexts (threads) that may call start()/stop().
Contexts == {1, 2}

\* What a text frame can be, by what json.loads / data["p"] / float / data["T"]/1000
\* do with it.
FrameKinds == {"trade", "not_json", "missing_field", "bad_price_string", "wrong_type"}
NoFrame == [kind |-> "none", t |-> 0, p |-> 0, stale |-> FALSE]
\* Frames that json.loads and float() accept, with a price that no trade has:
\* {"p": "0.00000000", "T": ...} and {"p": "-1.5", "T": ...}.
NonPositiveKinds == {"zero_price", "negative_price"}

\* The feed's trade price for the trade of symbol sym with event time t: the
\* symbols trade at different levels, and no two trades of the run at one price.
PriceOf(sym, t) == (IF Lower(sym) = "btcusdt" THEN 100 ELSE 200) + t
\* float(data["p"]) of a frame of the given kind.
FramePrice(kind, sym, t) ==
    CASE kind = "zero_price"     -> 0
      [] kind = "negative_price" -> 0 - PriceOf(sym, t)
      [] OTHER                   -> PriceOf(sym, t)

VARIABLES
    impl,             \* which class the client is
    running,          \* self.running / self._running
    current_symbol,   \* self.current_symbol / self._connection_state.symbol
    status,           \* self._connection_state.status        (WebSocketManager)
    error_count,      \* self._connection_state.error_count   (WebSocketManager)
    current_price,    \* self._current_price                  (WebSocketManager)
    message_count,    \* self._message_count                  (WebSocketManager)
    price_data,       \* self.price_data / self._price_history: deque(maxlen=N)
    websocket,        \* self.websocket / self._websocket: the unit whose transport it is
    loop,             \* self.loop / self._loop: the unit whose event loop it is
    thread,           \* self.thread / self._thread
    connection_task,  \* self.connection_task                 (PriceStream)
    stop_event,       \* self._stop_event: the unit whose Event it is
    units,            \* the background units: locals and position of each
    fg,               \* the foreground contexts: position of each inside start()/stop()
    clock,            \* frames delivered so far (the next frame's event time)
    fails,            \* handshake failures injected so far
    appended,         \* history: every sample appended since the last clear()
    lim,              \* the limits of the run (fixed by Init)
    rd                \* a caller of the read side: position inside the call, its result

vars == <<impl, running, current_symbol, status, error_count, current_price,
          message_count, price_data, websocket, loop, thread, connection_task,
          stop_event, units, fg, clock, fails, appended, lim, rd>>

wmvars   == <<status, error_count, current_price, message_count>>
feedvars == <<clock, fails, lim, rd>>

\* ----------------------------------------------------------------- helpers
Min(a, b) == IF a < b THEN a ELSE b

RECURSIVE Pow2(_)
Pow2(k) == IF k = 0 THEN 1 ELSE 2 * Pow2(k - 1)

\* A unit that was never launched.
Unborn == [pc |-> "unborn", sym |-> NoSymbol, ev |-> FALSE, closed |-> FALSE,
           backoff |-> InitialBackoff, delay |-> 0, waiton |-> None, cbs |-> <<>>,
           frame |-> NoFrame, cancelled |-> FALSE, streak |-> 0, badjson |-> FALSE,
           told |-> FALSE]

\* The unit's coroutine has returned or raised: its locals are gone (the
\* unit's Event and loop remain reachable through the client's handles).
Returned(r) == [r EXCEPT !.pc = "finally", !.backoff = InitialBackoff, !.delay = 0,
                         !.waiton = None, !.frame = NoFrame, !.cancelled = FALSE,
                         !.streak = 0, !.badjson = FALSE]

\* The unit's coroutine is suspended at an await: its loop runs callbacks.
AwaitPcs == {"connecting", "recv", "backoff"}
\* The unit's task has not finished.
TaskAlive(u) == units[u].pc \in {"boot", "loop_top", "connecting", "recv", "handling", "backoff"}

\* e and e.is_set(), for e None or the Event of unit e
IsSet(e) == IF e = None THEN FALSE ELSE units[e].ev
\* self._stop_event and self._stop_event.is_set()
StopEventSet == IsSet(stop_event)

\* ---------------------------------------------------------------- the buffer
\* A buffer that refuses the new sample when it is full.
DequeAppend_drops_newest(buf, x) ==
    IF Len(buf) >= MaxPoints THEN buf ELSE Append(buf, x)

\* deque(maxlen=N).append: at capacity the oldest sample is dropped from the left.
DequeAppend(buf, x) ==
    IF Len(buf) >= MaxPoints THEN Append(Tail(buf), x) ELSE Append(buf, x)

\* json.loads(message); float(data["p"]); data["T"] / 1000 -- which exception, if any.
ParseOutcome(kind) ==
    CASE kind = "trade"            -> "ok"
      [] kind \in NonPositiveKinds  -> "ok"
      [] kind = "not_json"         -> "JSONDecodeError"
      [] kind = "missing_field"    -> "KeyError"
      [] kind = "bad_price_string" -> "ValueError"
      [] kind = "wrong_type"       -> "TypeError"

\* An except clause that forgets the decoder's error.
CaughtParseErrors_without_json == {"KeyError", "ValueError"}

\* except (json.JSONDecodeError, KeyError, ValueError)
CaughtParseErrors == {"JSONDecodeError", "KeyError", "ValueError"}

\* Columns taken from two different copies: the prices miss the oldest sample.
Unzip_torn(data) == [kind |-> "lists",
                     ts |-> [i \in 1 .. Len(data) |-> data[i].t],
                     ps |-> [i \in 1 .. Len(data) - 1 |-> data[i + 1].p]]

\* zip(*data), list(timestamps), list(prices): the columns of the copied samples.
Unzip(data) == [kind |-> "lists",
                ts |-> [i \in 1 .. Len(data) |-> data[i].t],
                ps |-> [i \in 1 .. Len(data) |-> data[i].p]]
EmptySeries == [kind |-> "lists", ts |-> <<>>, ps |-> <<>>]
\* zip() of no samples gives nothing to unpack into (timestamps, prices).
Raised      == [kind |-> "ValueError", ts |-> <<>>, ps |-> <<>>]
NoResult    == [kind |-> "none", ts |-> <<>>, ps |-> <<>>]

\* The (timestamp, price) tuple of a frame.  History: by is the unit that
\* appended it, stale whether the frame arrived after a start() for another
\* symbol had been called.
Sample(f, u) == [t |-> f.t, p |-> f.p, by |-> u, stale |-> f.stale]

\* ------------------------------------------------------------------- Init
\* The client as its constructor leaves it (ws_client.py 29-37,
\* websocket_manager.py 28-45, models.py 24-27).
Constructed ==
    /\ impl \in Impls
    /\ running = FALSE
    /\ current_symbol = NoSymbol
    /\ status = "Disconnected"
    /\ error_count = 0
    /\ current_price = None
    /\ message_count = 0
    /\ price_data = <<>>
    /\ websocket = None
    /\ loop = None
    /\ thread = None
    /\ connection_task = None
    /\ stop_event = None
    /\ units = [u \in Units |-> Unborn]
    /\ fg = [c \in Contexts |-> [pc |-> "idle", op |-> "none", sym |-> NoSymbol]]
    /\ clock = 0
    /\ fails = 0
    /\ appended = <<>>
    /\ rd = [pc |-> "idle", res |-> NoResult]

\* Spec: sessions may overlap (a new unit is launched while older ones unwind).
Init ==
    /\ Constructed
    /\ lim = [overlap |-> TRUE, frames |-> MaxFrames, fails |-> MaxFails, syms |-> Symbols,
              ctxs |-> {1}]

\* SpecSession: one session after the other (every start() finds the earlier
\* units gone, as when join(timeout=0.5) succeeds), with a longer feed.
InitSession ==
    /\ Constructed
    /\ lim = [overlap |-> FALSE, frames |-> SessionFrames, fails |-> 1, syms |-> Symbols,
              ctxs |-> {1}]

\* SpecRead: as SpecSession, with a thread that calls get_series().
InitRead ==
    /\ Constructed
    /\ lim = [overlap |-> FALSE, frames |-> ReadFrames, fails |-> 1, syms |-> Symbols,
              ctxs |-> {1}]

\* SpecBackoff: one session after the other, with a feed that keeps failing.
InitBackoff ==
    /\ Constructed
    /\ lim = [overlap |-> FALSE, frames |-> 1, fails |-> BackoffFails, syms |-> Symbols,
              ctxs |-> {1}]

\* History: since unit u was launched, start() was called for another symbol.
SwitchRequested(u) ==
    \/ \E c \in Contexts : /\ fg[c].pc # "idle" /\ fg[c].op = "start"
                            /\ Lower(fg[c].sym) # Lower(units[u].sym)
    \/ \E v \in Units : /\ v > u /\ units[v].pc # "unborn"
                         /\ Lower(units[v].sym) # Lower(units[u].sym)

\* The frame the feed delivers to unit u now: event time and price of the trade.
Frame(u, kind) == [kind |-> kind, t |-> clock + 1,
                   p |-> FramePrice(kind, units[u].sym, clock + 1),
                   stale |-> SwitchRequested(u)]

\* The unit the next launching start() creates.
NextUnit == CHOOSE u \in Units : units[u].pc = "unborn" /\ \A v \in Units : v < u => units[v].pc # "unborn"
\* A unit is left for this start() and for every start() already in progress.
CanLaunch == Cardinality({u \in Units : units[u].pc = "unborn"})
                 > Cardinality({c \in Contexts : fg[c].op = "start"})
\* Whether the run lets the new thread start now.  In a run without overlap every
\* unit that a stop() has told to end is gone before start() goes on (its
\* join(timeout=0.5) succeeds); a unit that no stop() was made for outlives any join.
LaunchOK ==
    lim.overlap \/ \A u \in Units : units[u].pc \in {"unborn", "done"} \/ ~units[u].told

Idle == [pc |-> "idle", op |-> "none", sym |-> NoSymbol]
\* No call of start() or stop() is in progress.
Quiet == \A c \in Contexts : fg[c] = Idle
\* Context c makes the next call: the contexts are interchangeable, so the call
\* is given to the first one that is free.
CanCall(c) ==
    /\ c \in lim.ctxs /\ fg[c].pc = "idle"
    /\ \A d \in Contexts : d < c => fg[d].pc # "idle"
\* Another context can call start()/stop() while this call is in progress.
Concurrent == Cardinality(lim.ctxs) > 1
\* History: stop() has run since the unit was launched.
Told(U) == [u \in Units |-> IF U[u].pc = "unborn" THEN U[u] ELSE [U[u] EXCEPT !.told = TRUE]]

\* ============================================================ PriceStream
IsPS == impl = "PriceStream"

\* stop(), lines 197-222: clear running and schedule set_stop_event() and _cleanup()
\* on self.loop (run_coroutine_threadsafe does not wait).
PS_stop_signal ==
    /\ running' = FALSE
    /\ units' = Told(IF loop # None /\ ~units[loop].closed
                     THEN [units EXCEPT ![loop].cbs =
                             @ \o (IF stop_event # None THEN <<"set_stop_event">> ELSE <<>>)
                               \o <<"cleanup">>]
                     ELSE units)

\* stop(), lines 225-233: reset the visible state without waiting for the thread.
PS_stop_reset ==
    /\ current_symbol' = NoSymbol
    /\ websocket' = None
    /\ connection_task' = None

\* start(), lines 170-191: join(timeout=0.5) gives up on a live thread, then the
\* residual state is cleared, the buffer emptied and the new thread started.
PS_start_launch(sym) ==
    /\ thread' = NextUnit
    /\ connection_task' = None
    /\ websocket' = None
    /\ current_symbol' = sym
    /\ running' = TRUE
    /\ price_data' = <<>>
    /\ appended' = <<>>
    /\ units' = [units EXCEPT ![NextUnit] = [Unborn EXCEPT !.pc = "boot", !.sym = sym]]

\* start(symbol) up to the end of stop()'s first half; when no session is
\* running, up to the return of stop() at line 198, and on to the end of start()
\* unless another context can write the client's fields in between.
PS_start(c, sym) ==
    /\ IsPS /\ CanCall(c) /\ CanLaunch /\ sym \in lim.syms
    /\ ~(running /\ current_symbol = sym)            \* line 162: already streaming
    /\ running \/ Concurrent \/ LaunchOK
    /\ IF running
       THEN /\ PS_stop_signal
            /\ fg' = [fg EXCEPT ![c] = [pc |-> "stop_reset", op |-> "start", sym |-> sym]]
            /\ UNCHANGED <<current_symbol, price_data, websocket, thread,
                           connection_task, appended>>
       ELSE IF Concurrent
       THEN /\ fg' = [fg EXCEPT ![c] = [pc |-> "launch", op |-> "start", sym |-> sym]]
            /\ UNCHANGED <<running, current_symbol, price_data, websocket, thread,
                           connection_task, appended, units>>
       ELSE /\ PS_start_launch(sym)
            /\ fg' = [fg EXCEPT ![c] = Idle]
    /\ UNCHANGED <<impl, wmvars, loop, stop_event, feedvars>>

\* start(symbol) when the client already streams symbol: return at once.
PS_start_same(c, sym) ==
    /\ IsPS /\ CanCall(c) /\ sym \in lim.syms
    /\ running /\ current_symbol = sym
    /\ UNCHANGED vars

\* stop() called by the UI, first half.
PS_stop(c) ==
    /\ IsPS /\ CanCall(c)
    /\ running
    /\ PS_stop_signal
    /\ fg' = [fg EXCEPT ![c] = [pc |-> "stop_reset", op |-> "stop", sym |-> NoSymbol]]
    /\ UNCHANGED <<impl, wmvars, current_symbol, price_data, websocket, loop, thread,
                   connection_task, stop_event, feedvars, appended>>

\* stop() on a client that is not running: line 197 returns.
PS_stop_idle(c) ==
    /\ IsPS /\ CanCall(c)
    /\ ~running
    /\ UNCHANGED vars

\* The second half of stop(); stop() then returns, to the UI or into start().
PS_stop_finish(c) ==
    /\ IsPS /\ fg[c].pc = "stop_reset"
    /\ PS_stop_reset
    /\ fg' = [fg EXCEPT ![c] = IF @.op = "start" THEN [@ EXCEPT !.pc = "launch"]
                                                      ELSE Idle]
    /\ UNCHANGED <<impl, wmvars, running, price_data, loop, thread, stop_event, units,
                   feedvars, appended>>

\* The rest of start() after its stop() returned.
PS_start_finish(c) ==
    /\ IsPS /\ fg[c].pc = "launch" /\ LaunchOK
    /\ PS_start_launch(fg[c].sym)
    /\ fg' = [fg EXCEPT ![c] = Idle]
    /\ UNCHANGED <<impl, wmvars, loop, stop_event, feedvars>>

\* ------------------------------------------------ PriceStream background unit
\* _run_event_loop, lines 127-133: a new loop, a new Event, the task.
PS_run_event_loop(u) ==
    /\ IsPS /\ units[u].pc = "boot"
    /\ loop' = u
    /\ stop_event' = u
    /\ connection_task' = u
    /\ units' = [units EXCEPT ![u].pc = "loop_top"]
    /\ UNCHANGED <<impl, wmvars, running, current_symbol, price_data, websocket, thread,
                   fg, feedvars, appended>>

\* Line 50: the while condition; line 122 when it fails.
PS_while(u) ==
    /\ IsPS /\ units[u].pc = "loop_top"
    /\ IF running /\ ~StopEventSet
       THEN /\ units' = [units EXCEPT ![u].pc = "connecting"]
            /\ UNCHANGED websocket
       ELSE /\ units' = [units EXCEPT ![u] = Returned(@)]
            /\ websocket' = None
    /\ UNCHANGED <<impl, wmvars, running, current_symbol, price_data, loop, thread,
                   connection_task, stop_event, fg, feedvars, appended>>

\* Lines 105-120: the handler of an exception of the connect or of the stream.
\* An Event of another unit's loop may refuse the wait (RuntimeError), which ends
\* the task without line 122.
PS_except(u) ==
    IF running /\ ~StopEventSet /\ current_symbol = units[u].sym
    THEN \/ /\ units' = [units EXCEPT ![u].pc = "backoff", ![u].frame = NoFrame,
                                      ![u].delay = units[u].backoff,
                                      ![u].waiton = stop_event,
                                      ![u].streak = @ + 1]
            /\ UNCHANGED websocket
         \/ /\ stop_event \notin {None, u}
            /\ units' = [units EXCEPT ![u] = Returned(@)]
            /\ UNCHANGED websocket
    ELSE /\ units' = [units EXCEPT ![u] = Returned(@)]
         /\ websocket' = None

\* A handshake success that forgets line 56 (backoff = 1).
PS_connected_keeps_backoff(u) ==
    /\ IsPS /\ units[u].pc = "connecting" /\ ~units[u].cancelled
    /\ websocket' = u
    /\ units' = [units EXCEPT ![u].pc = "recv", ![u].streak = 0, ![u].badjson = FALSE]
    /\ UNCHANGED <<impl, wmvars, running, current_symbol, price_data, loop, thread,
                   connection_task, stop_event, fg, feedvars, appended>>

\* Lines 54-57: the handshake succeeds.
PS_connected(u) ==
    /\ IsPS /\ units[u].pc = "connecting" /\ ~units[u].cancelled
    /\ websocket' = u
    /\ units' = [units EXCEPT ![u].pc = "recv", ![u].backoff = InitialBackoff,
                              ![u].streak = 0, ![u].badjson = FALSE]
    /\ UNCHANGED <<impl, wmvars, running, current_symbol, price_data, loop, thread,
                   connection_task, stop_event, fg, feedvars, appended>>

\* Line 54 raises: the handshake fails.
PS_connect_failed(u) ==
    /\ IsPS /\ units[u].pc = "connecting" /\ ~units[u].cancelled
    /\ fails < lim.fails
    /\ fails' = fails + 1
    /\ PS_except(u)
    /\ UNCHANGED <<impl, wmvars, running, current_symbol, price_data, loop, thread,
                   connection_task, stop_event, fg, clock, lim, rd, appended>>

\* Lines 61-76: a frame arrives; the stop check, the symbol check, the parse.
\* A frame the inner except clause catches (lines 93-96) is logged and skipped.
PS_receive(u, kind) ==
    /\ IsPS /\ units[u].pc = "recv" /\ ~units[u].cancelled
    /\ clock < lim.frames
    /\ clock' = clock + 1
    /\ units' = IF ~running \/ StopEventSet \/ current_symbol # units[u].sym
                THEN [units EXCEPT ![u].pc = "loop_top"]
                ELSE IF ParseOutcome(kind) \in CaughtParseErrors
                THEN [units EXCEPT ![u].badjson = @ \/ kind = "not_json"]
                ELSE [units EXCEPT ![u].pc = "handling",
                                   ![u].frame = Frame(u, kind)]
    /\ UNCHANGED <<impl, wmvars, running, current_symbol, price_data, websocket, loop,
                   thread, connection_task, stop_event, fg, fails, lim, rd, appended>>

\* Line 77: append the sample; or the frame's TypeError reaches line 105.
PS_handle(u) ==
    /\ IsPS /\ units[u].pc = "handling"
    /\ IF ParseOutcome(units[u].frame.kind) = "ok"
       THEN /\ price_data' = DequeAppend(price_data, Sample(units[u].frame, u))
            /\ appended' = Append(appended, Sample(units[u].frame, u))
            /\ units' = [units EXCEPT ![u].pc = "recv", ![u].frame = NoFrame]
            /\ UNCHANGED websocket
       ELSE /\ PS_except(u)
            /\ UNCHANGED <<price_data, appended>>
    /\ UNCHANGED <<impl, wmvars, running, current_symbol, loop, thread,
                   connection_task, stop_event, fg, feedvars>>

\* The remote side closes normally: the async for ends, the while loop goes on.
PS_closed_ok(u) ==
    /\ IsPS /\ units[u].pc = "recv" /\ ~units[u].cancelled
    /\ units' = [units EXCEPT ![u].pc = "loop_top"]
    /\ UNCHANGED <<impl, wmvars, running, current_symbol, price_data, websocket, loop,
                   thread, connection_task, stop_event, fg, feedvars, appended>>

\* Lines 98-103: the transport drops (ConnectionClosed): break leaves the while loop.
PS_connection_closed(u) ==
    /\ IsPS /\ units[u].pc = "recv" /\ ~units[u].cancelled
    /\ units' = [units EXCEPT ![u] = Returned(@)]
    /\ websocket' = None
    /\ UNCHANGED <<impl, wmvars, running, current_symbol, price_data, loop, thread,
                   connection_task, stop_event, fg, feedvars, appended>>

\* Lines 115-117: the backoff delay elapses.
PS_backoff_elapsed(u) ==
    /\ IsPS /\ units[u].pc = "backoff" /\ ~units[u].cancelled
    /\ units[u].waiton # None /\ ~IsSet(units[u].waiton)
    /\ units' = [units EXCEPT ![u].pc = "loop_top", ![u].delay = 0, ![u].waiton = None,
                              ![u].backoff = Min(units[u].backoff * 2, MaxBackoff)]
    /\ UNCHANGED <<impl, wmvars, running, current_symbol, price_data, websocket, loop,
                   thread, connection_task, stop_event, fg, feedvars, appended>>

\* Lines 110-114: the wait returns (the Event was set, or the plain sleep ended).
PS_backoff_break(u) ==
    /\ IsPS /\ units[u].pc = "backoff" /\ ~units[u].cancelled
    /\ IF units[u].waiton = None THEN TRUE ELSE IsSet(units[u].waiton)
    /\ units' = [units EXCEPT ![u] = Returned(@)]
    /\ websocket' = None
    /\ UNCHANGED <<impl, wmvars, running, current_symbol, price_data, loop, thread,
                   connection_task, stop_event, fg, feedvars, appended>>

\* The task was cancelled: CancelledError at its await, line 134.
PS_cancelled(u) ==
    /\ IsPS /\ units[u].pc \in AwaitPcs /\ units[u].cancelled
    /\ units' = [units EXCEPT ![u] = Returned(@)]
    /\ UNCHANGED <<impl, wmvars, running, current_symbol, price_data, websocket, loop,
                   thread, connection_task, stop_event, fg, feedvars, appended>>

\* With t the unit of self.connection_task: task.cancel() if it is not done.
CancelTask(U, t) ==
    IF t # None /\ TaskAlive(t) THEN [U EXCEPT ![t].cancelled = TRUE] ELSE U

\* Lines 138-153: cancel self.connection_task, close self.loop, self.loop = None.
\* Closing another unit's running loop raises and leaves self.loop.
PS_finally(u) ==
    /\ IsPS /\ units[u].pc = "finally"
    /\ LET U1 == CancelTask([units EXCEPT ![u].pc = "done", ![u].cbs = <<>>],
                            connection_task)
           mine == loop # None /\ (loop = u \/ units[loop].pc = "finally")
       IN  /\ units' = IF mine THEN [U1 EXCEPT ![loop].closed = TRUE] ELSE U1
           /\ loop' = IF mine THEN None ELSE loop
    /\ UNCHANGED <<impl, wmvars, running, current_symbol, price_data, websocket, thread,
                   connection_task, stop_event, fg, feedvars, appended>>

\* The unit's loop runs the next coroutine scheduled on it by stop():
\*   set_stop_event (lines 207-209) sets whatever self._stop_event is now;
\*   _cleanup (lines 239-245) closes whatever self.websocket is now;
\*   _cleanup after its sleep (lines 247-255) cancels self.connection_task.
\* close() on a transport of another loop may fail or may close it.
PS_callback(u) ==
    /\ IsPS /\ units[u].pc \in AwaitPcs /\ units[u].cbs # <<>>
    /\ LET cb == Head(units[u].cbs)
           U0 == [units EXCEPT ![u].cbs = Tail(@)]
       IN  CASE cb = "set_stop_event" ->
                  /\ units' = IF stop_event # None
                              THEN [U0 EXCEPT ![stop_event].ev = TRUE] ELSE U0
                  /\ UNCHANGED websocket
             [] cb = "cleanup" ->
                  /\ \E closes \in BOOLEAN :
                       /\ closes => websocket # None /\ units[websocket].pc = "recv"
                       /\ ~closes => websocket # u \/ units[u].pc # "recv"
                       /\ units' = [IF closes
                                    THEN [U0 EXCEPT ![websocket].pc = "loop_top"]
                                    ELSE U0
                                      EXCEPT ![u].cbs = Append(@, "cleanup_cancel")]
                  /\ UNCHANGED websocket
             [] cb = "cleanup_cancel" ->
                  /\ units' = CancelTask(U0, connection_task)
                  /\ websocket' = IF connection_task \in {None, u} THEN None
                                  ELSE websocket
    /\ UNCHANGED <<impl, wmvars, running, current_symbol, price_data, loop, thread,
                   connection_task, stop_event, fg, feedvars, appended>>

PS_Next ==
    \/ \E c \in Contexts :
         \/ \E sym \in CaseSymbols : PS_start(c, sym) \/ PS_start_same(c, sym)
         \/ PS_stop(c) \/ PS_stop_idle(c) \/ PS_stop_finish(c) \/ PS_start_finish(c)
    \/ \E u \in Units :
         \/ PS_run_event_loop(u) \/ PS_while(u) \/ PS_connected(u)
         \/ PS_connect_failed(u) \/ PS_closed_ok(u) \/ PS_connection_closed(u)
         \/ PS_handle(u) \/ PS_backoff_elapsed(u) \/ PS_backoff_break(u)
         \/ PS_cancelled(u) \/ PS_finally(u) \/ PS_callback(u)
         \/ \E kind \in FrameKinds : PS_receive(u, kind)


\* ======================================================= WebSocketManager
IsWM == impl = "WebSocketManager"

\* stop(), lines 106-111.
WM_stop_mark ==
    /\ running' = FALSE
    /\ status' = "Disconnecting"
    /\ units' = Told(units)

\* stop(), lines 114-123: call_soon_threadsafe(self._stop_event.set) on self._loop,
\* then the visible state is reset.
WM_stop_reset ==
    /\ units' = IF loop # None /\ ~units[loop].closed /\ stop_event # None
                THEN [units EXCEPT ![loop].cbs = Append(@, stop_event)]
                ELSE units
    /\ status' = "Disconnected"
    /\ current_symbol' = NoSymbol
    /\ websocket' = None

\* start(), lines 82-100: a new ConnectionState, the counters and the buffer
\* reset, the new thread started.
WM_start_launch(sym) ==
    /\ status' = "Connecting"
    /\ current_symbol' = sym
    /\ error_count' = 0
    /\ running' = TRUE
    /\ message_count' = 0
    /\ price_data' = <<>>
    /\ appended' = <<>>
    /\ thread' = NextUnit
    /\ units' = [units EXCEPT ![NextUnit] = [Unborn EXCEPT !.pc = "boot", !.sym = sym]]

\* start(symbol) up to the end of stop()'s first half; when no session is
\* running, up to the return of stop() at line 107, and on to the end of start()
\* unless another context can write the manager's fields in between.
WM_start(c, sym) ==
    /\ IsWM /\ CanCall(c) /\ CanLaunch /\ sym \in lim.syms
    /\ ~(running /\ current_symbol = Lower(sym))     \* line 74: already running
    /\ running \/ Concurrent \/ LaunchOK
    /\ IF running
       THEN /\ WM_stop_mark
            /\ fg' = [fg EXCEPT ![c] = [pc |-> "stop_reset", op |-> "start", sym |-> sym]]
            /\ UNCHANGED <<current_symbol, error_count, message_count, price_data,
                           appended, thread>>
       ELSE IF Concurrent
       THEN /\ fg' = [fg EXCEPT ![c] = [pc |-> "launch", op |-> "start", sym |-> sym]]
            /\ UNCHANGED <<running, status, current_symbol, error_count, message_count,
                           price_data, appended, thread, units>>
       ELSE /\ WM_start_launch(Lower(sym))
            /\ fg' = [fg EXCEPT ![c] = Idle]
    /\ UNCHANGED <<impl, current_price, websocket, loop, connection_task, stop_event,
                   feedvars>>

\* start(symbol) when the manager already runs symbol: return at once.
WM_start_same(c, sym) ==
    /\ IsWM /\ CanCall(c) /\ sym \in lim.syms
    /\ running /\ current_symbol = Lower(sym)
    /\ UNCHANGED vars

\* stop() called by the UI, first half.
WM_stop(c) ==
    /\ IsWM /\ CanCall(c)
    /\ running
    /\ WM_stop_mark
    /\ fg' = [fg EXCEPT ![c] = [pc |-> "stop_reset", op |-> "stop", sym |-> NoSymbol]]
    /\ UNCHANGED <<impl, current_symbol, error_count, current_price, message_count,
                   price_data, websocket, loop, thread, connection_task, stop_event,
                   feedvars, appended>>

\* stop() on a manager that is not running: line 106 returns.
WM_stop_idle(c) ==
    /\ IsWM /\ CanCall(c)
    /\ ~running
    /\ UNCHANGED vars

\* The second half of stop(); stop() then returns, to the UI or into start().
WM_stop_finish(c) ==
    /\ IsWM /\ fg[c].pc = "stop_reset"
    /\ WM_stop_reset
    /\ fg' = [fg EXCEPT ![c] = IF @.op = "start" THEN [@ EXCEPT !.pc = "launch"]
                                                      ELSE Idle]
    /\ UNCHANGED <<impl, running, error_count, current_price, message_count, price_data,
                   loop, thread, connection_task, stop_event, feedvars, appended>>

\* The rest of start() after its stop() returned.
WM_start_finish(c) ==
    /\ IsWM /\ fg[c].pc = "launch" /\ LaunchOK
    /\ WM_start_launch(Lower(fg[c].sym))
    /\ fg' = [fg EXCEPT ![c] = Idle]
    /\ UNCHANGED <<impl, current_price, websocket, loop, connection_task, stop_event,
                   feedvars>>

\* ------------------------------------------- WebSocketManager background unit
\* _run_websocket, lines 159-164: a new loop, a new Event.
WM_run_websocket(u) ==
    /\ IsWM /\ units[u].pc = "boot"
    /\ loop' = u
    /\ stop_event' = u
    /\ units' = [units EXCEPT ![u].pc = "loop_top"]
    /\ UNCHANGED <<impl, wmvars, running, current_symbol, price_data, websocket, thread,
                   connection_task, fg, feedvars, appended>>

\* Line 183: the while condition and line 186; line 228 when it fails.
WM_while(u) ==
    /\ IsWM /\ units[u].pc = "loop_top"
    /\ IF running /\ ~StopEventSet
       THEN /\ units' = [units EXCEPT ![u].pc = "connecting"]
            /\ status' = "Connecting"
       ELSE /\ units' = [units EXCEPT ![u] = Returned(@)]
            /\ status' = "Disconnected"
    /\ UNCHANGED <<impl, error_count, current_price, message_count, running,
                   current_symbol, price_data, websocket, loop, thread, connection_task,
                   stop_event, fg, feedvars, appended>>

\* Lines 210-226: the handler of an exception of the connect.  Without an Event
\* the wait is sleep(backoff) under timeout=backoff, which times out.  An Event of
\* another unit's loop may refuse the wait (RuntimeError): lines 165-168.
WM_except(u) ==
    IF running
    THEN \/ /\ units' = [units EXCEPT ![u].pc = "backoff",
                                      ![u].delay = units[u].backoff,
                                      ![u].waiton = stop_event,
                                      ![u].streak = @ + 1]
            /\ status' = "Error"
            /\ error_count' = error_count + 1
         \/ /\ stop_event \notin {None, u}
            /\ units' = [units EXCEPT ![u] = Returned(@)]
            /\ status' = "Error"
            /\ error_count' = error_count + 2
    ELSE /\ units' = [units EXCEPT ![u] = Returned(@)]
         /\ status' = "Disconnected"
         /\ UNCHANGED error_count

\* Lines 188-199: the handshake succeeds.
WM_connected(u) ==
    /\ IsWM /\ units[u].pc = "connecting"
    /\ websocket' = u
    /\ status' = "Connected"
    /\ units' = [units EXCEPT ![u].pc = "recv", ![u].backoff = InitialBackoff,
                              ![u].streak = 0, ![u].badjson = FALSE]
    /\ UNCHANGED <<impl, error_count, current_price, message_count, running,
                   current_symbol, price_data, loop, thread, connection_task,
                   stop_event, fg, feedvars, appended>>

\* Line 188 raises: the handshake fails.
WM_connect_failed(u) ==
    /\ IsWM /\ units[u].pc = "connecting"
    /\ fails < lim.fails
    /\ fails' = fails + 1
    /\ WM_except(u)
    /\ UNCHANGED <<impl, current_price, message_count, running, current_symbol,
                   price_data, websocket, loop, thread, connection_task, stop_event,
                   fg, clock, lim, rd, appended>>

\* Lines 233-240: a frame arrives; the stop check, the parse.  A frame the except
\* clause of lines 256-258 catches is logged and skipped.
WM_receive(u, kind) ==
    /\ IsWM /\ units[u].pc = "recv"
    /\ clock < lim.frames
    /\ clock' = clock + 1
    /\ units' = IF ~running \/ StopEventSet
                THEN [units EXCEPT ![u].pc = "loop_top"]
                ELSE IF ParseOutcome(kind) \in CaughtParseErrors
                THEN [units EXCEPT ![u].badjson = @ \/ kind = "not_json"]
                ELSE [units EXCEPT ![u].pc = "handling",
                                   ![u].frame = Frame(u, kind)]
    /\ UNCHANGED <<impl, wmvars, running, current_symbol, price_data, websocket, loop,
                   thread, connection_task, stop_event, fg, fails, lim, rd, appended>>

\* Lines 243-246: record the sample; or lines 259-261: any other exception of the
\* parse ends the handler, and the connection with it.
WM_handle(u) ==
    /\ IsWM /\ units[u].pc = "handling"
    /\ IF ParseOutcome(units[u].frame.kind) = "ok"
       THEN /\ current_price' = units[u].frame.p
            /\ price_data' = DequeAppend(price_data, Sample(units[u].frame, u))
            /\ appended' = Append(appended, Sample(units[u].frame, u))
            /\ message_count' = message_count + 1
            /\ units' = [units EXCEPT ![u].pc = "recv", ![u].frame = NoFrame]
       ELSE /\ units' = [units EXCEPT ![u].pc = "loop_top", ![u].frame = NoFrame]
            /\ UNCHANGED <<current_price, price_data, appended, message_count>>
    /\ UNCHANGED <<impl, status, error_count, running, current_symbol, websocket, loop,
                   thread, connection_task, stop_event, fg, feedvars>>

\* The remote side closes normally: the async for ends, the while loop goes on.
WM_closed_ok(u) ==
    /\ IsWM /\ units[u].pc = "recv"
    /\ units' = [units EXCEPT ![u].pc = "loop_top"]
    /\ UNCHANGED <<impl, wmvars, running, current_symbol, price_data, websocket, loop,
                   thread, connection_task, stop_event, fg, feedvars, appended>>

\* Lines 203-208: the transport drops (ConnectionClosedError).
WM_connection_closed(u) ==
    /\ IsWM /\ units[u].pc = "recv"
    /\ IF running
       THEN /\ units' = [units EXCEPT ![u].pc = "loop_top"]
            /\ status' = "Reconnecting"
       ELSE /\ units' = [units EXCEPT ![u] = Returned(@)]
            /\ status' = "Disconnected"
    /\ UNCHANGED <<impl, error_count, current_price, message_count, running,
                   current_symbol, price_data, websocket, loop, thread, connection_task,
                   stop_event, fg, feedvars, appended>>

\* Lines 223-224: the backoff delay elapses.
WM_backoff_elapsed(u) ==
    /\ IsWM /\ units[u].pc = "backoff"
    /\ ~IsSet(units[u].waiton)
    /\ units' = [units EXCEPT ![u].pc = "loop_top", ![u].delay = 0, ![u].waiton = None,
                              ![u].backoff = Min(units[u].backoff * 2, MaxBackoff)]
    /\ UNCHANGED <<impl, wmvars, running, current_symbol, price_data, websocket, loop,
                   thread, connection_task, stop_event, fg, feedvars, appended>>

\* Lines 218-222: the Event was set during the wait; break, then line 228.
WM_backoff_break(u) ==
    /\ IsWM /\ units[u].pc = "backoff"
    /\ IsSet(units[u].waiton)
    /\ units' = [units EXCEPT ![u] = Returned(@)]
    /\ status' = "Disconnected"
    /\ UNCHANGED <<impl, error_count, current_price, message_count, running,
                   current_symbol, price_data, websocket, loop, thread, connection_task,
                   stop_event, fg, feedvars, appended>>

\* Lines 169-175: close self._loop (errors swallowed), then both handles = None.
WM_finally(u) ==
    /\ IsWM /\ units[u].pc = "finally"
    /\ LET U1 == [units EXCEPT ![u].pc = "done", ![u].cbs = <<>>]
           mine == loop # None /\ (loop = u \/ units[loop].pc = "finally")
       IN  units' = IF mine THEN [U1 EXCEPT ![loop].closed = TRUE] ELSE U1
    /\ loop' = None
    /\ stop_event' = None
    /\ UNCHANGED <<impl, wmvars, running, current_symbol, price_data, websocket, thread,
                   connection_task, fg, feedvars, appended>>

\* The unit's loop runs the Event.set that stop() scheduled on it.
WM_callback(u) ==
    /\ IsWM /\ units[u].pc \in AwaitPcs /\ units[u].cbs # <<>>
    /\ units' = [units EXCEPT ![u].cbs = Tail(@), ![Head(units[u].cbs)].ev = TRUE]
    /\ UNCHANGED <<impl, wmvars, running, current_symbol, price_data, websocket, loop,
                   thread, connection_task, stop_event, fg, feedvars, appended>>

\* _message_handler in the steps the interpreter can cut it into: the buffer
\* write of line 244 and the counter update of line 245 are separate statements,
\* and another thread (the UI's start(), lines 90-91) can run between them.
\* Lines 243-244: the price and the sample; or lines 259-261 as in WM_handle.
WM_handle_append(u) ==
    /\ IsWM /\ units[u].pc = "handling"
    /\ IF ParseOutcome(units[u].frame.kind) = "ok"
       THEN /\ current_price' = units[u].frame.p
            /\ price_data' = DequeAppend(price_data, Sample(units[u].frame, u))
            /\ appended' = Append(appended, Sample(units[u].frame, u))
            /\ units' = [units EXCEPT ![u].pc = "counting"]
       ELSE /\ units' = [units EXCEPT ![u].pc = "loop_top", ![u].frame = NoFrame]
            /\ UNCHANGED <<current_price, price_data, appended>>
    /\ UNCHANGED <<impl, status, error_count, message_count, running, current_symbol,
                   websocket, loop, thread, connection_task, stop_event, fg, feedvars>>

\* Line 245: self._message_count += 1, on the counter as it is now.
WM_handle_count(u) ==
    /\ IsWM /\ units[u].pc = "counting"
    /\ message_count' = message_count + 1
    /\ units' = [units EXCEPT ![u].pc = "recv", ![u].frame = NoFrame]
    /\ UNCHANGED <<impl, status, error_count, current_price, running, current_symbol,
                   price_data, websocket, loop, thread, connection_task, stop_event, fg,
                   feedvars, appended>>

\* The manager with the message handler cut statement by statement.
WM_CountNext ==
    \/ \E c \in Contexts :
         \/ \E sym \in CaseSymbols : WM_start(c, sym) \/ WM_start_same(c, sym)
         \/ WM_stop(c) \/ WM_stop_idle(c) \/ WM_stop_finish(c) \/ WM_start_finish(c)
    \/ \E u \in Units :
         \/ WM_run_websocket(u) \/ WM_while(u) \/ WM_connected(u)
         \/ WM_connect_failed(u) \/ WM_closed_ok(u) \/ WM_connection_closed(u)
         \/ WM_handle_append(u) \/ WM_handle_count(u)
         \/ WM_backoff_elapsed(u) \/ WM_backoff_break(u)
         \/ WM_finally(u) \/ WM_callback(u)
         \/ \E kind \in FrameKinds : WM_receive(u, kind)

WM_Next ==
    \/ \E c \in Contexts :
         \/ \E sym \in CaseSymbols : WM_start(c, sym) \/ WM_start_same(c, sym)
         \/ WM_stop(c) \/ WM_stop_idle(c) \/ WM_stop_finish(c) \/ WM_start_finish(c)
    \/ \E u \in Units :
         \/ WM_run_websocket(u) \/ WM_while(u) \/ WM_connected(u)
         \/ WM_connect_failed(u) \/ WM_closed_ok(u) \/ WM_connection_closed(u)
         \/ WM_handle(u) \/ WM_backoff_elapsed(u) \/ WM_backoff_break(u)
         \/ WM_finally(u) \/ WM_callback(u)
         \/ \E kind \in FrameKinds : WM_receive(u, kind)

\* ================================================================ readers
\* A get_series without the emptiness test: it goes straight to the copy.
get_series_unchecked ==
    /\ rd.pc = "idle"
    /\ rd' = [pc |-> "copy", res |-> NoResult]
    /\ UNCHANGED <<impl, wmvars, running, current_symbol, price_data, websocket, loop,
                   thread, connection_task, stop_event, units, fg, clock, fails, lim,
                   appended>>

\* get_series (ws_client.py 264-265, websocket_manager.py 138-139): the
\* emptiness test.
get_series_check ==
    /\ rd.pc = "idle"
    /\ rd' = IF price_data = <<>> THEN [pc |-> "idle", res |-> EmptySeries]
                                  ELSE [pc |-> "copy", res |-> NoResult]
    /\ UNCHANGED <<impl, wmvars, running, current_symbol, price_data, websocket, loop,
                   thread, connection_task, stop_event, units, fg, clock, fails, lim,
                   appended>>

\* get_series (ws_client.py 267-269, websocket_manager.py 141-142): the deque is
\* copied in one piece (list(deque) and zip(*deque) run without releasing the
\* interpreter lock) and split into its columns.
get_series_copy ==
    /\ rd.pc = "copy"
    /\ rd' = [pc |-> "idle",
              res |-> IF price_data = <<>> THEN Raised ELSE Unzip(price_data)]
    /\ UNCHANGED <<impl, wmvars, running, current_symbol, price_data, websocket, loop,
                   thread, connection_task, stop_event, units, fg, clock, fails, lim,
                   appended>>

\* The caller is done with the lists.
get_series_drop ==
    /\ rd.pc = "idle" /\ rd.res # NoResult
    /\ rd' = [pc |-> "idle", res |-> NoResult]
    /\ UNCHANGED <<impl, wmvars, running, current_symbol, price_data, websocket, loop,
                   thread, connection_task, stop_event, units, fg, clock, fails, lim,
                   appended>>

\* ------------------------------------------------------ get_latest_price
\* What get_latest_price returns when nothing runs between its lines.
\* WebSocketManager hands out the field its message handler last wrote
\* (websocket_manager.py 129).
WM_get_latest_price == current_price

\* PriceStream: the price of the newest sample of the deque, None when the
\* deque is empty (ws_client.py 278-281).
PS_get_latest_price ==
    IF price_data = <<>> THEN None ELSE price_data[Len(price_data)].p

get_latest_price == IF IsWM THEN WM_get_latest_price ELSE PS_get_latest_price

\* What a call of get_latest_price hands back.
LatestOf(v) == [kind |-> IF v = None THEN "None" ELSE "float", p |-> v]
LatestRaised == [kind |-> "IndexError", p |-> None]

\* A call of get_latest_price: WebSocketManager's single read, or PriceStream's
\* emptiness test (ws_client.py 278-279).
get_latest_price_call ==
    /\ rd.pc = "idle"
    /\ rd' = IF IsWM THEN [pc |-> "idle", res |-> LatestOf(WM_get_latest_price)]
             ELSE IF price_data = <<>> THEN [pc |-> "idle", res |-> LatestOf(None)]
             ELSE [pc |-> "index", res |-> NoResult]
    /\ UNCHANGED <<impl, wmvars, running, current_symbol, price_data, websocket, loop,
                   thread, connection_task, stop_event, units, fg, clock, fails, lim,
                   appended>>

\* PriceStream, ws_client.py 281: price_data[-1][1], on the deque as it is now.
get_latest_price_index ==
    /\ rd.pc = "index"
    /\ rd' = [pc |-> "idle",
              res |-> IF price_data = <<>> THEN LatestRaised
                      ELSE LatestOf(PS_get_latest_price)]
    /\ UNCHANGED <<impl, wmvars, running, current_symbol, price_data, websocket, loop,
                   thread, connection_task, stop_event, units, fg, clock, fails, lim,
                   appended>>

\* ------------------------------------------------------ get_price_change
\* What get_price_change returns or raises.  The quotient is kept exact, as the
\* fraction num / den; w and now are the call's window and its time.time().
ChangeNone(w, now)   == [kind |-> "None", num |-> 0, den |-> 1, w |-> w, now |-> now]
ChangeRaised(w, now) == [kind |-> "ZeroDivisionError", num |-> 0, den |-> 1,
                         w |-> w, now |-> now]
ChangeOf(cur, ref, w, now) ==
    IF ref = 0 THEN ChangeRaised(w, now)
    ELSE [kind |-> "float", num |-> (cur - ref) * 100, den |-> ref, w |-> w, now |-> now]

\* A change taken against the sample before the latest, whatever its age.
get_price_change_previous(data, w, now) ==
    IF Len(data) < 2 THEN ChangeNone(w, now)
    ELSE ChangeOf(data[Len(data)].p, data[Len(data) - 1].p, w, now)

\* get_price_change (ws_client.py 293-304): scanning from the newest sample, the
\* first one whose timestamp is window_seconds or more before time.time().
get_price_change(data, w, now) ==
    IF Len(data) < 2 THEN ChangeNone(w, now)
    ELSE LET old == {i \in 1 .. Len(data) : now - data[i].t >= w}
         IN  IF old = {} THEN ChangeNone(w, now)
             ELSE LET r == CHOOSE i \in old : \A j \in old : j <= i
                  IN  ChangeOf(data[Len(data)].p, data[r].p, w, now)

\* The inputs of the calls: event times and prices of the samples, windows, and
\* the clock readings of the calls (not before the newest sample).
ChangeTimes   == {0, 30, 61}
ChangePrices  == {0, 100, 110, 121}
ChangeWindows == {30, 60}
ChangeNows    == {61, 100}
\* The buffers: up to ChangePoints samples in the order of their event times.
ChangeBuffers ==
    UNION {{b \in [1 .. n -> [t : ChangeTimes, p : ChangePrices, by : {1}, stale : {FALSE}]] :
               \A i \in 1 .. n - 1 : b[i].t < b[i + 1].t} : n \in 0 .. ChangePoints}

\* A call of get_price_change(w) at clock reading now.
get_price_change_call(w, now) ==
    /\ rd.pc = "idle"
    /\ rd' = [pc |-> "idle", res |-> get_price_change(price_data, w, now)]
    /\ UNCHANGED <<impl, wmvars, running, current_symbol, price_data, websocket, loop,
                   thread, connection_task, stop_event, units, fg, clock, fails, lim,
                   appended>>

\* ------------------------------------------------------- get_top_symbols
\* What one requests.get + raise_for_status can do: answer, or raise a
\* requests.RequestException (a transport failure, or an HTTP error status).
HttpOutcomes == {"ok", "transport_error", "http_error"}
\* What the answered body turns out to be when it is processed (lines 52-125).
BodyKinds == {"pairs", "no_usdt_pairs", "not_json", "missing_field"}

\* The exception lines 52-125 raise on the body, if any.
BodyOutcome(kind) ==
    CASE kind = "pairs"         -> "table"
      [] kind = "no_usdt_pairs" -> "empty"              \* line 69
      [] kind = "not_json"      -> "RequestException"   \* requests' JSONDecodeError
      [] kind = "missing_field" -> "KeyError"

TopIdle == [pc |-> "idle", res |-> "none", attempt |-> 0, requests |-> 0,
            after_ok |-> 0, failed |-> 0, exc |-> "none"]

\* The call begins: lines 28-34.
get_top_symbols_call ==
    /\ rd.pc = "idle"
    /\ rd' = [TopIdle EXCEPT !.pc = "request"]
    /\ UNCHANGED <<impl, wmvars, running, current_symbol, price_data, websocket, loop,
                   thread, connection_task, stop_event, units, fg, clock, fails, lim,
                   appended>>

\* A retry loop that goes on to the next attempt after an answer as well.
get_top_symbols_request_no_break ==
    /\ rd.pc = "request"
    /\ LET out  == lim.http[rd.attempt + 1]
           last == rd.attempt = MaxRetries - 1
           r1   == [rd EXCEPT !.requests = @ + 1,
                              !.after_ok = IF rd.res = "response" THEN @ + 1 ELSE @,
                              !.failed = IF out = "ok" THEN @ ELSE @ + 1]
       IN  rd' = IF out = "ok"
                 THEN IF last THEN [r1 EXCEPT !.pc = "body", !.res = "response"]
                              ELSE [r1 EXCEPT !.attempt = @ + 1, !.res = "response"]
                 ELSE IF last THEN [r1 EXCEPT !.pc = "except", !.exc = "RequestException"]
                 ELSE [r1 EXCEPT !.attempt = @ + 1]
    /\ UNCHANGED <<impl, wmvars, running, current_symbol, price_data, websocket, loop,
                   thread, connection_task, stop_event, units, fg, clock, fails, lim,
                   appended>>

\* One pass of the retry loop, lines 34-47: the request; break on an answer;
\* on a RequestException raise it from the last attempt, else sleep and go on.
get_top_symbols_request ==
    /\ rd.pc = "request"
    /\ LET out  == lim.http[rd.attempt + 1]
           last == rd.attempt = MaxRetries - 1
           r1   == [rd EXCEPT !.requests = @ + 1,
                              !.after_ok = IF rd.res = "response" THEN @ + 1 ELSE @,
                              !.failed = IF out = "ok" THEN @ ELSE @ + 1]
       IN  rd' = IF out = "ok" THEN [r1 EXCEPT !.pc = "body", !.res = "response"]
                 ELSE IF last THEN [r1 EXCEPT !.pc = "except", !.exc = "RequestException"]
                 ELSE [r1 EXCEPT !.attempt = @ + 1]
    /\ UNCHANGED <<impl, wmvars, running, current_symbol, price_data, websocket, loop,
                   thread, connection_task, stop_event, units, fg, clock, fails, lim,
                   appended>>

\* Lines 49-125: the body is decoded, filtered and tabulated.
get_top_symbols_body ==
    /\ rd.pc = "body"
    /\ LET out == BodyOutcome(lim.body)
       IN  rd' = IF out \in {"table", "empty"}
                 THEN [rd EXCEPT !.pc = "idle", !.res = out]
                 ELSE [rd EXCEPT !.pc = "except", !.exc = out]
    /\ UNCHANGED <<impl, wmvars, running, current_symbol, price_data, websocket, loop,
                   thread, connection_task, stop_event, units, fg, clock, fails, lim,
                   appended>>

\* Lines 127-138: every exception of the try block ends in an empty DataFrame.
get_top_symbols_except ==
    /\ rd.pc = "except"
    /\ rd' = [rd EXCEPT !.pc = "idle", !.res = "empty"]
    /\ UNCHANGED <<impl, wmvars, running, current_symbol, price_data, websocket, loop,
                   thread, connection_task, stop_event, units, fg, clock, fails, lim,
                   appended>>

\* ------------------------------------------------------ get_symbol_price
\* What one attempt can meet: no answer (a transport failure, an HTTP error
\* status), or an answer whose body is
\*   not JSON                     response.json() raises requests' JSONDecodeError,
\*                                a RequestException
\*   {"code": -1121, ...}         data["price"] raises KeyError
\*   {"price": "n/a"}             float() raises ValueError
\*   {"price": null}, [], null    float() or the subscript raises TypeError
\*   {"price": "0.00000000"}      a price that is not positive
\*   {"price": "nan"}             float() gives nan, and nan <= 0 is False
\*   {"price": "101.5"}           a price
PriceReplies == {"transport_error", "http_error", "not_json", "missing_field",
                 "bad_price_string", "wrong_type", "nonpositive", "nan", "price"}

\* The exception lines 158-167 raise on the reply, if any.
ReplyOutcome(reply) ==
    CASE reply \in {"transport_error", "http_error", "not_json"} -> "RequestException"
      [] reply = "missing_field"    -> "KeyError"
      [] reply = "bad_price_string" -> "ValueError"
      [] reply = "wrong_type"       -> "TypeError"
      [] OTHER                      -> "ok"

\* except (requests.RequestException, ValueError, KeyError), line 180
CaughtPriceErrors == {"RequestException", "ValueError", "KeyError"}

PriceIdle == [pc |-> "idle", res |-> "none", attempt |-> 0, requests |-> 0,
              exc |-> "none"]

\* The call begins: lines 151-156.
get_symbol_price_call ==
    /\ rd.pc = "idle"
    /\ rd' = [PriceIdle EXCEPT !.pc = "request"]
    /\ UNCHANGED <<impl, wmvars, running, current_symbol, price_data, websocket, loop,
                   thread, connection_task, stop_event, units, fg, clock, fails, lim,
                   appended>>

\* One pass of the retry loop, lines 156-178: the request and the reading of the
\* price; a RequestException is raised on from the last attempt, else sleep and
\* go on; any other exception leaves the loop.
get_symbol_price_request ==
    /\ rd.pc = "request"
    /\ LET reply == lim.http[rd.attempt + 1]
           out   == ReplyOutcome(reply)
           last  == rd.attempt = MaxRetries - 1
           r1    == [rd EXCEPT !.requests = @ + 1]
       IN  rd' = CASE out = "ok" ->
                        [r1 EXCEPT !.pc = "idle",
                                   !.res = CASE reply = "nonpositive" -> "None"   \* line 170
                                             [] reply = "nan"         -> "nan"
                                             [] OTHER                 -> "price"]
                   [] out = "RequestException" /\ ~last -> [r1 EXCEPT !.attempt = @ + 1]
                   [] OTHER -> [r1 EXCEPT !.pc = "except", !.exc = out]
    /\ UNCHANGED <<impl, wmvars, running, current_symbol, price_data, websocket, loop,
                   thread, connection_task, stop_event, units, fg, clock, fails, lim,
                   appended>>

\* Lines 180-182: the exceptions named there end in None; any other one leaves
\* the function.
get_symbol_price_except ==
    /\ rd.pc = "except"
    /\ rd' = [rd EXCEPT !.pc = "idle",
                        !.res = IF rd.exc \in CaughtPriceErrors THEN "None" ELSE "raised"]
    /\ UNCHANGED <<impl, wmvars, running, current_symbol, price_data, websocket, loop,
                   thread, connection_task, stop_event, units, fg, clock, fails, lim,
                   appended>>

\* ------------------------------------------------------ format_percentage
\* A float argument, as sign bit and magnitude in thousandths (the sign bit
\* tells -0.0 from 0.0, which compare equal).
Pct(neg, mag) == [neg |-> neg, mag |-> mag]
\* percentage > 0
Positive(x) == ~x.neg /\ x.mag > 0
Negative(x) == x.neg /\ x.mag > 0

DigitChars == <<"0", "1", "2", "3", "4", "5", "6", "7", "8", "9">>
RECURSIVE Decimal(_)
\* str(n) for a natural number n
Decimal(n) == IF n < 10 THEN <<DigitChars[n + 1]>>
              ELSE Append(Decimal(n \div 10), DigitChars[(n % 10) + 1])

\* f"{x:.2f}": the sign bit's "-", the magnitude rounded to hundredths, two
\* decimals.  (Arguments half-way between two hundredths are left out of
\* FormatArgs: their rounding depends on the binary fraction.)
Fixed2(x) ==
    LET h == (x.mag + 5) \div 10
    IN  (IF x.neg THEN <<"-">> ELSE <<>>)
        \o Decimal(h \div 100) \o <<".">>
        \o <<DigitChars[((h \div 10) % 10) + 1], DigitChars[(h % 10) + 1]>>

\* A formatter that signs every value that is not negative.
format_percentage_plus_zero(x) ==
    (IF ~x.neg THEN <<"+">> ELSE <<>>) \o Fixed2(x) \o <<"%">>

\* format_percentage, utils.py 36-37.
format_percentage(x) ==
    (IF Positive(x) THEN <<"+">> ELSE <<>>) \o Fixed2(x) \o <<"%">>

\* The arguments: every thousandth up to MaxPct of either sign (both zeros),
\* and the two values of the test suite.
FormatArgs ==
    {Pct(n, m) : n \in BOOLEAN, m \in {k \in 0 .. MaxPct : k % 10 # 5}}
    \cup {Pct(FALSE, 5670), Pct(TRUE, 3210)}

FormatIdle(x) == [pc |-> "idle", arg |-> x, res |-> <<>>]

\* A call of format_percentage(rd.arg).
format_percentage_call ==
    /\ rd.pc = "idle" /\ rd.res = <<>>
    /\ rd' = [rd EXCEPT !.res = format_percentage(rd.arg)]
    /\ UNCHANGED <<impl, wmvars, running, current_symbol, price_data, websocket, loop,
                   thread, connection_task, stop_event, units, fg, clock, fails, lim,
                   appended>>

\* -------------------------------------------- manage_websocket_connection
\* The UI session (main.py): st.session_state.price_stream, .current_symbol and
\* .connection_status, and every PriceStream the session has created, each by
\* its running flag and current symbol.  History: told says stop() was called on
\* the stream, failed that its start() raised.
NewStream == [running |-> FALSE, sym |-> NoSymbol, told |-> FALSE, failed |-> FALSE]

\* A stop() that leaves the stream as it is.
StreamStop_keeps_running(s) == [s EXCEPT !.told = TRUE]

\* PriceStream.stop(), ws_client.py 197-201 and 225: a running stream stops.
StreamStop(s) ==
    IF s.running THEN [s EXCEPT !.running = FALSE, !.sym = NoSymbol, !.told = TRUE]
                 ELSE [s EXCEPT !.told = TRUE]

\* PriceStream.start(symbol) on a new stream, ws_client.py 162-191; raises is
\* whether Thread.start() at line 191 fails, after line 181 has set running.
StreamStart(s, sym, raises) ==
    [s EXCEPT !.running = TRUE, !.sym = sym, !.failed = raises]

\* What the sidebar's multiselect can hand over: the selected pairs in order.
Selections == {<<>>, <<"BTCUSDT">>, <<"ETHUSDT">>,
               <<"BTCUSDT", "ETHUSDT">>, <<"ETHUSDT", "BTCUSDT">>}

\* setup_session_state, main.py 225-234.
SessionIdle == [pc |-> "idle", streams |-> <<>>, price_stream |-> None,
                current_symbol |-> NoSymbol, connection_status |-> "Disconnected",
                sel |-> <<>>]

\* manage_websocket_connection(selected_symbols), main.py 384-433.
manage_websocket_connection(sel, raises) ==
    /\ rd.pc = "idle"
    /\ LET existing == rd.price_stream
           stopped  == IF existing # None
                       THEN [rd.streams EXCEPT ![existing] = StreamStop(@)]
                       ELSE rd.streams
       IN  IF sel = <<>>
           THEN rd' = IF existing # None
                      THEN [rd EXCEPT !.streams = stopped, !.price_stream = None,
                                      !.connection_status = "Disconnected",
                                      !.current_symbol = NoSymbol, !.sel = sel]
                      ELSE [rd EXCEPT !.sel = sel]
           ELSE LET need_new_connection ==
                        \/ rd.current_symbol # sel[1]
                        \/ existing = None
                        \/ ~rd.streams[existing].running
                IN  IF need_new_connection
                    THEN /\ Len(rd.streams) < MaxStreams
                         /\ rd' = [rd EXCEPT
                              !.streams = Append(stopped,
                                                 StreamStart(NewStream, Lower(sel[1]), raises)),
                              !.price_stream = IF raises THEN None ELSE Len(rd.streams) + 1,
                              !.current_symbol = IF raises THEN NoSymbol ELSE sel[1],
                              !.connection_status = IF raises THEN "Disconnected"
                                                    ELSE "Connected",
                              !.sel = sel]
                    ELSE /\ ~raises
                         /\ rd' = [rd EXCEPT !.sel = sel]
    /\ UNCHANGED <<impl, wmvars, running, current_symbol, price_data, websocket, loop,
                   thread, connection_task, stop_event, units, fg, clock, fails, lim,
                   appended>>

\* ---------------------------------------------------------------- debounce
\* time.time() when debounce() is called, in clock ticks: far above any
\* wait_time, while last_called starts at 0 (utils.py 105).
Epoch == 100

\* debounce(func, wait_time), utils.py 105-114: the closure's last_called.
\* History: log holds, for every call of the wrapper, the clock reading and
\* whether func ran; res is what the last call returned.
Debounced(w) == [pc |-> "idle", wait_time |-> w, last_called |-> 0, now |-> Epoch,
                 log |-> <<>>, res |-> "none"]

\* The clock readings at which func ran, in order.
RECURSIVE Executions(_)
Executions(log) ==
    IF log = <<>> THEN <<>>
    ELSE IF log[Len(log)].ran
         THEN Append(Executions(SubSeq(log, 1, Len(log) - 1)), log[Len(log)].t)
         ELSE Executions(SubSeq(log, 1, Len(log) - 1))

\* Time passes.
debounce_tick ==
    /\ rd.pc = "idle"
    /\ rd.now < Epoch + MaxTime
    /\ rd' = [rd EXCEPT !.now = @ + 1]
    /\ UNCHANGED <<impl, wmvars, running, current_symbol, price_data, websocket, loop,
                   thread, connection_task, stop_event, units, fg, clock, fails, lim,
                   appended>>

\* A wrapper that notes the time of every call, suppressed or not.
debounce_call_restarts ==
    /\ rd.pc = "idle"
    /\ Len(rd.log) < MaxCalls
    /\ LET runs == rd.now - rd.last_called >= rd.wait_time
       IN  rd' = [rd EXCEPT !.last_called = rd.now,
                            !.log = Append(@, [t |-> rd.now, ran |-> runs]),
                            !.res = IF runs THEN "result" ELSE "None"]
    /\ UNCHANGED <<impl, wmvars, running, current_symbol, price_data, websocket, loop,
                   thread, connection_task, stop_event, units, fg, clock, fails, lim,
                   appended>>

\* wrapper(*args, **kwargs), utils.py 108-112: func runs if wait_time or more
\* has passed since last_called, which is then set; otherwise the call falls off
\* the end of the function and returns None.
debounce_call ==
    /\ rd.pc = "idle"
    /\ Len(rd.log) < MaxCalls
    /\ LET runs == rd.now - rd.last_called >= rd.wait_time
       IN  rd' = [rd EXCEPT !.last_called = IF runs THEN rd.now ELSE @,
                            !.log = Append(@, [t |-> rd.now, ran |-> runs]),
                            !.res = IF runs THEN "result" ELSE "None"]
    /\ UNCHANGED <<impl, wmvars, running, current_symbol, price_data, websocket, loop,
                   thread, connection_task, stop_event, units, fg, clock, fails, lim,
                   appended>>

\* ---------------------------------------------- _session_state_updates
\* The module's global dict symbol -> {price, timestamp, last_update}
\* (ws_client.py 16), written by the background unit for every trade and
\* drained by the UI thread.  An entry is told by the number of the update it
\* holds: Absent for no key, 0 for the empty dict of line 85.
Absent == 0 - 1

\* History: latest is the number of the last update recorded for each symbol,
\* delivered the updates that some get_websocket_updates() has returned.
UpdatesIdle == [pc |-> "idle", bg |-> "idle", sym |-> NoSymbol,
                D |-> [s \in Symbols |-> Absent], keys |-> {},
                out |-> [s \in Symbols |-> Absent], n |-> 0,
                latest |-> [s \in Symbols |-> 0], delivered |-> {}]

\* has_websocket_updates(), line 325: bool(_session_state_updates)
has_websocket_updates == \E s \in Symbols : rd.D[s] # Absent

\* _connect_and_stream, lines 84-85: the key is created when it is missing.
record_begin(sym) ==
    /\ rd.bg = "idle" /\ rd.n < MaxUpdates
    /\ rd' = [rd EXCEPT !.bg = "update", !.sym = sym,
                        !.D[sym] = IF @ = Absent THEN 0 ELSE @]
    /\ UNCHANGED <<impl, wmvars, running, current_symbol, price_data, websocket, loop,
                   thread, connection_task, stop_event, units, fg, clock, fails, lim,
                   appended>>

\* Lines 87-91: _session_state_updates[symbol].update({...}); the subscript
\* raises KeyError when the key is gone, which line 93 catches and logs.
record_update ==
    /\ rd.bg = "update"
    /\ rd' = IF rd.D[rd.sym] = Absent
             THEN [rd EXCEPT !.bg = "idle", !.sym = NoSymbol, !.n = @ + 1]
             ELSE [rd EXCEPT !.bg = "idle", !.sym = NoSymbol, !.n = @ + 1,
                             !.D[rd.sym] = rd.n + 1, !.latest[rd.sym] = rd.n + 1]
    /\ UNCHANGED <<impl, wmvars, running, current_symbol, price_data, websocket, loop,
                   thread, connection_task, stop_event, units, fg, clock, fails, lim,
                   appended>>

\* get_websocket_updates, line 314: a shallow copy, so the entries copied are
\* the dict's own entries.
get_websocket_updates_copy ==
    /\ rd.pc = "idle"
    /\ rd' = [rd EXCEPT !.pc = "clear", !.keys = {s \in Symbols : rd.D[s] # Absent}]
    /\ UNCHANGED <<impl, wmvars, running, current_symbol, price_data, websocket, loop,
                   thread, connection_task, stop_event, units, fg, clock, fails, lim,
                   appended>>

\* Lines 315-316: clear the global dict, return the copy: the keys the copy
\* took, each with the entry as it is by now.
get_websocket_updates_clear ==
    /\ rd.pc = "clear"
    /\ rd' = [rd EXCEPT !.pc = "idle", !.keys = {},
                        !.out = [s \in Symbols |-> IF s \in rd.keys THEN rd.D[s] ELSE Absent],
                        !.delivered = @ \cup {rd.D[s] : s \in rd.keys},
                        !.D = [s \in Symbols |-> Absent]]
    /\ UNCHANGED <<impl, wmvars, running, current_symbol, price_data, websocket, loop,
                   thread, connection_task, stop_event, units, fg, clock, fails, lim,
                   appended>>

\* ========================================================= specifications
Next == PS_Next \/ WM_Next
ReadNext == Next \/ get_series_check \/ get_series_copy \/ get_series_drop
Spec == Init /\ [][Next]_vars

SpecSession == InitSession /\ [][Next]_vars
SpecRead == InitRead /\ [][ReadNext]_vars
SpecBackoff == InitBackoff /\ [][Next]_vars

\* SpecChange: get_price_change applied to a buffer of PriceStream.
InitChange ==
    /\ impl = "PriceStream"
    /\ running = FALSE /\ current_symbol = NoSymbol
    /\ status = "Disconnected" /\ error_count = 0
    /\ current_price = None /\ message_count = 0
    /\ price_data \in ChangeBuffers
    /\ appended = price_data
    /\ websocket = None /\ loop = None /\ thread = None
    /\ connection_task = None /\ stop_event = None
    /\ units = [u \in Units |-> Unborn]
    /\ fg = [c \in Contexts |-> Idle]
    /\ clock = 0 /\ fails = 0
    /\ rd = [pc |-> "idle", res |-> NoResult]
    /\ lim = [overlap |-> FALSE, frames |-> 0, fails |-> 0, syms |-> {}, ctxs |-> {}]

ChangeNext == \E w \in ChangeWindows, now \in ChangeNows : get_price_change_call(w, now)

SpecChange == InitChange /\ [][ChangeNext]_vars

\* SpecFresh: a reader calls the accessors from the construction of the client
\* on, before and after the UI starts sessions (one after the other).
InitFresh ==
    /\ Constructed
    /\ lim = [overlap |-> FALSE, frames |-> 1, fails |-> 1, syms |-> Symbols,
              ctxs |-> {1}]

FreshNext ==
    \/ Next
    \/ get_series_check \/ get_series_copy \/ get_series_drop
    \/ get_latest_price_call \/ get_latest_price_index
    \/ \E w \in ChangeWindows, now \in ChangeNows : get_price_change_call(w, now)

SpecFresh == InitFresh /\ [][FreshNext]_vars

\* SpecTop: get_top_symbols called against a network whose every attempt's
\* outcome, and the body it answers with, are fixed at the start of the run.
InitTop ==
    /\ impl = "PriceStream"
    /\ running = FALSE /\ current_symbol = NoSymbol
    /\ status = "Disconnected" /\ error_count = 0
    /\ current_price = None /\ message_count = 0
    /\ price_data = <<>> /\ appended = <<>>
    /\ websocket = None /\ loop = None /\ thread = None
    /\ connection_task = None /\ stop_event = None
    /\ units = [u \in Units |-> Unborn]
    /\ fg = [c \in Contexts |-> Idle]
    /\ clock = 0 /\ fails = 0
    /\ rd = TopIdle
    /\ \E h \in [1 .. MaxRetries -> HttpOutcomes], b \in BodyKinds :
         lim = [overlap |-> FALSE, frames |-> 0, fails |-> 0, syms |-> {}, ctxs |-> {},
                http |-> h, body |-> b]

TopNext ==
    \/ get_top_symbols_call \/ get_top_symbols_request
    \/ get_top_symbols_body \/ get_top_symbols_except

SpecTop == InitTop /\ [][TopNext]_vars

\* SpecFormat: format_percentage applied to one argument.
InitFormat ==
    /\ impl = "PriceStream"
    /\ running = FALSE /\ current_symbol = NoSymbol
    /\ status = "Disconnected" /\ error_count = 0
    /\ current_price = None /\ message_count = 0
    /\ price_data = <<>> /\ appended = <<>>
    /\ websocket = None /\ loop = None /\ thread = None
    /\ connection_task = None /\ stop_event = None
    /\ units = [u \in Units |-> Unborn]
    /\ fg = [c \in Contexts |-> Idle]
    /\ clock = 0 /\ fails = 0
    /\ \E x \in FormatArgs : rd = FormatIdle(x)
    /\ lim = [overlap |-> FALSE, frames |-> 0, fails |-> 0, syms |-> {}, ctxs |-> {}]

FormatNext == format_percentage_call

SpecFormat == InitFormat /\ [][FormatNext]_vars

\* SpecOrder: a WebSocketManager whose sessions may overlap, as in Spec (its
\* start() does not wait for the old thread), on a feed of two frames.
InitOrder ==
    /\ Constructed
    /\ impl = "WebSocketManager"
    /\ lim = [overlap |-> TRUE, frames |-> 2, fails |-> 1, syms |-> Symbols, ctxs |-> {1}]

SpecOrder == InitOrder /\ [][WM_Next]_vars

\* SpecPrice: one session after the other, on a feed that may also deliver
\* well-formed frames whose price is zero or negative.
InitPrice ==
    /\ Constructed
    /\ lim = [overlap |-> FALSE, frames |-> 2, fails |-> 1, syms |-> Symbols, ctxs |-> {1}]

PriceNext ==
    \/ Next
    \/ \E u \in Units, kind \in NonPositiveKinds : PS_receive(u, kind) \/ WM_receive(u, kind)

SpecPrice == InitPrice /\ [][PriceNext]_vars

\* SpecCount: a WebSocketManager whose sessions may overlap, with the message
\* handler cut statement by statement, on a feed of one frame.
InitCount ==
    /\ Constructed
    /\ impl = "WebSocketManager"
    /\ lim = [overlap |-> TRUE, frames |-> 1, fails |-> 1, syms |-> Symbols, ctxs |-> {1}]

SpecCount == InitCount /\ [][WM_CountNext]_vars

\* SpecManage: the script's calls of manage_websocket_connection in one UI
\* session, with whatever the sidebar selects.
InitManage ==
    /\ impl = "PriceStream"
    /\ running = FALSE /\ current_symbol = NoSymbol
    /\ status = "Disconnected" /\ error_count = 0
    /\ current_price = None /\ message_count = 0
    /\ price_data = <<>> /\ appended = <<>>
    /\ websocket = None /\ loop = None /\ thread = None
    /\ connection_task = None /\ stop_event = None
    /\ units = [u \in Units |-> Unborn]
    /\ fg = [c \in Contexts |-> Idle]
    /\ clock = 0 /\ fails = 0
    /\ rd = SessionIdle
    /\ lim = [overlap |-> FALSE, frames |-> 0, fails |-> 0, syms |-> {}, ctxs |-> {}]

ManageNext == \E sel \in Selections, raises \in BOOLEAN : manage_websocket_connection(sel, raises)

SpecManage == InitManage /\ [][ManageNext]_vars

\* SpecDebounce: one debounced function, called from one thread as time passes.
InitDebounce ==
    /\ impl = "PriceStream"
    /\ running = FALSE /\ current_symbol = NoSymbol
    /\ status = "Disconnected" /\ error_count = 0
    /\ current_price = None /\ message_count = 0
    /\ price_data = <<>> /\ appended = <<>>
    /\ websocket = None /\ loop = None /\ thread = None
    /\ connection_task = None /\ stop_event = None
    /\ units = [u \in Units |-> Unborn]
    /\ fg = [c \in Contexts |-> Idle]
    /\ clock = 0 /\ fails = 0
    /\ \E w \in 0 .. MaxWait : rd = Debounced(w)
    /\ lim = [overlap |-> FALSE, frames |-> 0, fails |-> 0, syms |-> {}, ctxs |-> {}]

DebounceNext == debounce_tick \/ debounce_call

SpecDebounce == InitDebounce /\ [][DebounceNext]_vars

\* SpecSymbolPrice: get_symbol_price called against a network whose reply to
\* each attempt is fixed at the start of the run.
InitSymbolPrice ==
    /\ impl = "PriceStream"
    /\ running = FALSE /\ current_symbol = NoSymbol
    /\ status = "Disconnected" /\ error_count = 0
    /\ current_price = None /\ message_count = 0
    /\ price_data = <<>> /\ appended = <<>>
    /\ websocket = None /\ loop = None /\ thread = None
    /\ connection_task = None /\ stop_event = None
    /\ units = [u \in Units |-> Unborn]
    /\ fg = [c \in Contexts |-> Idle]
    /\ clock = 0 /\ fails = 0
    /\ rd = PriceIdle
    /\ \E h \in [1 .. MaxRetries -> PriceReplies] :
         lim = [overlap |-> FALSE, frames |-> 0, fails |-> 0, syms |-> {}, ctxs |-> {},
                http |-> h]

SymbolPriceNext ==
    get_symbol_price_call \/ get_symbol_price_request \/ get_symbol_price_except

SpecSymbolPrice == InitSymbolPrice /\ [][SymbolPriceNext]_vars

\* SpecUpdates: a background unit recording updates while the UI thread drains
\* them.
InitUpdates ==
    /\ impl = "PriceStream"
    /\ running = FALSE /\ current_symbol = NoSymbol
    /\ status = "Disconnected" /\ error_count = 0
    /\ current_price = None /\ message_count = 0
    /\ price_data = <<>> /\ appended = <<>>
    /\ websocket = None /\ loop = None /\ thread = None
    /\ connection_task = None /\ stop_event = None
    /\ units = [u \in Units |-> Unborn]
    /\ fg = [c \in Contexts |-> Idle]
    /\ clock = 0 /\ fails = 0
    /\ rd = UpdatesIdle
    /\ lim = [overlap |-> FALSE, frames |-> 0, fails |-> 0, syms |-> {}, ctxs |-> {}]

UpdatesNext ==
    \/ \E sym \in Symbols : record_begin(sym)
    \/ record_update
    \/ get_websocket_updates_copy \/ get_websocket_updates_clear

SpecUpdates == InitUpdates /\ [][UpdatesNext]_vars

\* SpecCase: one session after the other; start() is given a pair in either
\* letter case.
InitCase ==
    /\ Constructed
    /\ lim = [overlap |-> FALSE, frames |-> MaxFrames, fails |-> MaxFails,
              syms |-> CaseSymbols, ctxs |-> {1}]

SpecCase == InitCase /\ [][Next]_vars

\* SpecRace: two foreground contexts call start()/stop() with no lock between
\* them (neither class has one); one session after the other otherwise.
InitRace ==
    /\ Constructed
    /\ lim = [overlap |-> FALSE, frames |-> MaxFrames, fails |-> MaxFails,
              syms |-> Symbols, ctxs |-> Contexts]

SpecRace == InitRace /\ [][Next]_vars

\* SpecStop: one session after the other with the short feed of Spec, and the
\* scheduling the interpreter and asyncio give: a thread that can run does run,
\* a loop suspended at an await runs its scheduled callbacks, a handshake or a
\* timed wait ends.  The feed (frames, closes) and the UI owe nothing.
InitStop ==
    /\ Constructed
    /\ lim = [overlap |-> FALSE, frames |-> MaxFrames, fails |-> MaxFails, syms |-> Symbols,
              ctxs |-> {1}]

UnitProgress(u) ==
    \/ PS_run_event_loop(u) \/ PS_while(u) \/ PS_connected(u) \/ PS_connect_failed(u)
    \/ PS_handle(u) \/ PS_backoff_elapsed(u) \/ PS_backoff_break(u)
    \/ PS_cancelled(u) \/ PS_finally(u)
    \/ WM_run_websocket(u) \/ WM_while(u) \/ WM_connected(u) \/ WM_connect_failed(u)
    \/ WM_handle(u) \/ WM_backoff_elapsed(u) \/ WM_backoff_break(u) \/ WM_finally(u)

LoopProgress(u) == PS_callback(u) \/ WM_callback(u)

CallProgress(c) == PS_stop_finish(c) \/ PS_start_finish(c) \/ WM_stop_finish(c) \/ WM_start_finish(c)

Scheduling ==
    /\ \A c \in Contexts : WF_vars(CallProgress(c))
    /\ \A u \in Units : WF_vars(UnitProgress(u)) /\ WF_vars(LoopProgress(u))

SpecStop == InitStop /\ [][Next]_vars /\ Scheduling

\* ================================================================= claims

\* C1: the buffer never holds more than N samples, and it holds exactly the last
\* min(k, N) of the k samples appended since it was last cleared, oldest first.
C1_BufferKeepsLastN ==
    LET k == Len(appended)
        n == Min(k, MaxPoints)
    IN  /\ Len(price_data) <= MaxPoints
        /\ price_data = SubSeq(appended, k - n + 1, k)

\* More samples were appended than the buffer holds: the oldest was evicted.
C1_Witness == Len(appended) > MaxPoints /\ Len(price_data) = MaxPoints

\* C2: no sample in the buffer comes from a frame that arrived after start() had
\* been called for another symbol than the one of the connection it arrived on.
C2_NoStaleDelivery == \A i \in 1 .. Len(price_data) : ~price_data[i].stale

\* C3: every sample appended since the last start() launched its unit was
\* appended by that unit (no unit of an earlier start() appends any more).
C3_SingleWriter == \A i \in 1 .. Len(appended) : appended[i].by = thread

\* C4: a unit never begins a connection attempt once start() was called for
\* another symbol than its own.
C4_SymbolAffinity ==
    [][\A u \in Units :
         (units[u].pc # "connecting" /\ units'[u].pc = "connecting")
             => ~SwitchRequested(u)]_vars

\* C5: after start(B) returned from a session for another symbol, and as long
\* as the unit of the B session has appended nothing, the buffer is empty.
C5_SwitchClearsBuffer ==
    ( /\ Quiet /\ running
      /\ thread > 1 /\ units[thread - 1].sym # units[thread].sym
      /\ \A i \in 1 .. Len(appended) : appended[i].by # thread )
    => price_data = <<>>

\* C6: the lists get_series() returns have equal length, and element i of each
\* comes from one sample (the price is that of the trade with that event time).
C6_SnapshotConsistent ==
    rd.res.kind = "lists" =>
        /\ Len(rd.res.ts) = Len(rd.res.ps)
        /\ \A i \in 1 .. Len(rd.res.ts) :
              \E sym \in Symbols : rd.res.ps[i] = PriceOf(sym, rd.res.ts[i])

\* get_series() returned samples and the background unit has appended since.
C6_Witness ==
    /\ rd.res.kind = "lists" /\ Len(rd.res.ts) >= 1
    /\ Len(price_data) > Len(rd.res.ts)

C8_RecoversFromClose ==
    [][\A u \in Units :
         ( /\ units[u].pc = "recv" /\ ~units[u].cancelled
           /\ running /\ ~StopEventSet
           /\ thread = u /\ current_symbol = units[u].sym )
         => units'[u].pc # "finally"]_vars

\* C9: a non-JSON frame, arriving on a connection whose session is still wanted,
\* changes neither the buffer nor the unit (it stays connected, awaiting the
\* next frame exactly as before) nor the connection state.
C9_BadJsonSkipped ==
    [][\A u \in Units :
         ( /\ PS_receive(u, "not_json") \/ WM_receive(u, "not_json")
           /\ running /\ ~StopEventSet
           /\ IsPS => current_symbol = units[u].sym )
         => /\ price_data' = price_data
            /\ appended' = appended
            /\ units'[u].pc = "recv"
            /\ [units' EXCEPT ![u].badjson = FALSE] = [units EXCEPT ![u].badjson = FALSE]
            /\ <<websocket, status, error_count>>' = <<websocket, status, error_count>>]_vars

\* On one connection: a valid frame, a skipped non-JSON frame, a valid frame.
C9_Witness ==
    \E u \in Units :
        /\ units[u].pc = "recv" /\ units[u].badjson
        /\ Len(price_data) = 2
        /\ price_data[1].by = u /\ price_data[2].by = u
        /\ price_data[2].t = price_data[1].t + 2

\* C10: while stop() has returned and start() was not called again, the client
\* shows no symbol and the status Disconnected.
C10_StoppedLooksStopped ==
    (Quiet /\ ~running) =>
        (current_symbol = NoSymbol /\ status = "Disconnected")

\* C11: stop() on a client that is not running (a second stop() in a row, or a
\* stop() before any start()) returns at its first test having changed nothing,
\* so the status it leaves is the status it found: in every state in which such
\* a call can be made, status reads Disconnected.
C11_StopTwiceDisconnected ==
    (IsWM /\ Quiet /\ ~running) => status = "Disconnected"

\* C12: once stop() has returned, and unless start() is called again, every
\* background unit eventually exits (its transport closes as it leaves the
\* connection block), whether or not the feed delivers another frame.
C12_StopTerminates ==
    (Quiet /\ ~running)
        ~> (running \/ ~Quiet \/ \A u \in Units : units[u].pc \in {"unborn", "done"})

\* C13: a start(s) call made while the client runs a symbol equal to s up to
\* letter case changes nothing: no unit is launched or signalled, and running,
\* buffer, counters, current symbol and status stay as they are.
C13_SameSymbolNoOp ==
    [][\A c \in Contexts, sym \in CaseSymbols :
         ( /\ Quiet /\ running
           /\ Lower(current_symbol) = Lower(sym)
           /\ \/ PS_start(c, sym) \/ PS_start_same(c, sym)
              \/ WM_start(c, sym) \/ WM_start_same(c, sym) )
         => UNCHANGED <<running, current_symbol, status, error_count, message_count,
                        price_data, thread, units>>]_vars

\* C14: when no start()/stop() call is in progress and the client is running,
\* the unit the client references is the one launched for the current symbol,
\* and every unit launched for another symbol has had a stop() made for it.
C14_StartsSerialized ==
    (Quiet /\ running) =>
        /\ thread # None
        /\ units[thread].sym = current_symbol
        /\ \A u \in Units :
              (units[u].pc # "unborn" /\ units[u].sym # current_symbol) => units[u].told

\* C15: a call get_price_change(w) on samples of non-zero price gives None when
\* the buffer has fewer than 2 samples or no sample is w seconds or more older
\* than the latest one, and otherwise the percentage change of the latest price
\* against the most recent sample that is w seconds or more older than the
\* latest sample.
C15_ChangeAgainstLatest ==
    ( /\ rd.res.kind \in {"None", "float"}
      /\ \A i \in 1 .. Len(price_data) : price_data[i].p # 0 ) =>
        LET n   == Len(price_data)
            old == {i \in 1 .. n : price_data[n].t - price_data[i].t >= rd.res.w}
        IN  IF n < 2 \/ old = {}
            THEN rd.res.kind = "None"
            ELSE LET r == CHOOSE i \in old : \A j \in old : j <= i
                 IN  /\ rd.res.kind = "float"
                     /\ rd.res.num * price_data[r].p
                            = (price_data[n].p - price_data[r].p) * 100 * rd.res.den

\* C16 as stated: for the buffer [(0,100), (30,110), (61,121)], the call
\* get_price_change(60) at clock reading 61 returns 10.0.
C16_ExampleIsTen ==
    ( /\ price_data = << [t |-> 0, p |-> 100, by |-> 1, stale |-> FALSE],
                         [t |-> 30, p |-> 110, by |-> 1, stale |-> FALSE],
                         [t |-> 61, p |-> 121, by |-> 1, stale |-> FALSE] >>
      /\ rd.res.kind # "none" /\ rd.res.w = 60 /\ rd.res.now = 61 )
    => (rd.res.kind = "float" /\ rd.res.num = 10 * rd.res.den)

\* C16 amended: for that buffer and call the reference is (0,100), the only
\* sample 60 seconds or more old, and the result is (121-100)/100*100 = 21.0.
C16_ExampleIsTwentyOne ==
    ( /\ price_data = << [t |-> 0, p |-> 100, by |-> 1, stale |-> FALSE],
                         [t |-> 30, p |-> 110, by |-> 1, stale |-> FALSE],
                         [t |-> 61, p |-> 121, by |-> 1, stale |-> FALSE] >>
      /\ rd.res.kind # "none" /\ rd.res.w = 60 /\ rd.res.now = 61 )
    => (rd.res.kind = "float" /\ rd.res.num = 21 * rd.res.den)

\* The call of the example has been made on the buffer of the example.
C16_Witness ==
    /\ Len(price_data) = 3
    /\ price_data[1].t = 0 /\ price_data[1].p = 100
    /\ price_data[2].t = 30 /\ price_data[2].p = 110
    /\ price_data[3].t = 61 /\ price_data[3].p = 121
    /\ rd.res.kind = "float" /\ rd.res.w = 60 /\ rd.res.now = 61

\* C17: in every state in which no frame is being handled, get_latest_price()
\* is None exactly when the buffer get_series() reads is empty, and is otherwise
\* the price of the buffer's last sample.
C17_LatestAgreesWithBuffer ==
    (\A u \in Units : units[u].pc # "handling") =>
        /\ (get_latest_price = None) <=> (price_data = <<>>)
        /\ price_data # <<>> => get_latest_price = price_data[Len(price_data)].p

\* C18: an explicit stop clears the history: at the step in which a stop()
\* called by the UI returns, the buffer get_series() reads is empty.
C18_StopClearsBuffer ==
    [][\A c \in Contexts :
          (fg[c].op = "stop" /\ fg[c].pc = "stop_reset" /\ fg'[c] = Idle)
              => price_data' = <<>>]_vars

\* C19: no call of a read accessor raises: whatever the background unit and
\* start()/stop() do meanwhile, the reader's result is data or a sentinel.
C19_AccessorsNeverRaise ==
    rd.res.kind \notin {"ValueError", "ZeroDivisionError", "IndexError"}

\* A client on which start() was never called: no thread was ever created.
NeverStarted == thread = None /\ Quiet

\* The sentinels of the accessors.
Sentinels == {NoResult, EmptySeries, LatestOf(None)}
             \cup {ChangeNone(w, now) : w \in ChangeWindows, now \in ChangeNows}

\* C20: a client that was never started is not running, has no current symbol
\* and an empty buffer, and every accessor called on it returns its sentinel:
\* get_series() two empty lists, get_latest_price() None, get_price_change(w) None.
C20_FreshClientSentinels ==
    NeverStarted =>
        /\ ~running
        /\ current_symbol = NoSymbol
        /\ price_data = <<>>
        /\ get_latest_price = None
        /\ rd.pc = "idle"
        /\ rd.res \in Sentinels

\* A never-started client on which get_series() has returned.
C20_Witness == NeverStarted /\ rd.res = EmptySeries

\* C21: a call of get_top_symbols issues at most 3 requests, none after the
\* first answered one, and a call whose 3 attempts all failed returns the empty
\* table: no exception leaves the function.
C21_ThreeAttempts ==
    /\ rd.requests <= 3
    /\ rd.after_ok = 0
    /\ rd.pc \in {"idle", "request", "body", "except"}
    /\ (rd.pc = "idle" /\ rd.failed = 3) => rd.res = "empty"
    /\ (rd.pc = "idle" /\ rd.res = "table") => lim.http[rd.requests] = "ok"

\* Three failed attempts, and the call has returned.
C21_Witness == rd.pc = "idle" /\ rd.requests = 3 /\ rd.failed = 3 /\ rd.res = "empty"

\* C22: the string format_percentage returns starts with "+" exactly when the
\* argument is strictly greater than 0; for a negative argument it starts with
\* the value's own "-" and holds no "+"; for zero it holds no "+" either.
C22_PlusOnlyWhenPositive ==
    rd.res # <<>> =>
        LET s == rd.res
            x == rd.arg
        IN  /\ (Head(s) = "+") <=> Positive(x)
            /\ Negative(x) => Head(s) = "-"
            /\ ~Positive(x) => \A i \in 1 .. Len(s) : s[i] # "+"
            /\ Positive(x) => \A i \in 2 .. Len(s) : s[i] \notin {"+", "-"}
            /\ x = Pct(FALSE, 0) => s = <<"0", ".", "0", "0", "%">>
            /\ x = Pct(FALSE, 5670) => s = <<"+", "5", ".", "6", "7", "%">>
            /\ x = Pct(TRUE, 3210) => s = <<"-", "3", ".", "2", "1", "%">>

\* format_percentage(0.0) has returned.
C22_Witness == rd.arg = Pct(FALSE, 0) /\ rd.res = <<"0", ".", "0", "0", "%">>

\* C23: a malformed frame of any class (here one whose price or time field has
\* the wrong type), handled while its session is still wanted, appends nothing,
\* leaves the unit connected and awaiting the next frame, and leaves the
\* connection state and error_count as they were.
C23_MalformedSkipped ==
    [][\A u \in Units :
         ( /\ units[u].pc = "handling" /\ units[u].frame.kind # "trade"
           /\ units'[u].pc # "handling"
           /\ running /\ ~StopEventSet
           /\ IsPS => current_symbol = units[u].sym )
         => /\ units'[u].pc = "recv"
            /\ price_data' = price_data
            /\ <<websocket, status, error_count>>' = <<websocket, status, error_count>>]_vars

\* C24: a connection-level error while the session is running (a failed handshake,
\* a transport closed with an error) raises error_count by exactly one and leaves
\* the unit on its way to a new attempt; error_count never decreases except to 0
\* in the step of a start() that installs a new session.
C24_ErrorsCounted ==
    [][/\ \A u \in Units :
            (IsWM /\ running /\ (WM_connect_failed(u) \/ WM_connection_closed(u)))
            => /\ error_count' = error_count + 1
               /\ units'[u].pc \in {"backoff", "loop_top"}
       /\ error_count' < error_count
            => error_count' = 0 /\ thread' # thread /\ running']_vars

\* C25: in every state, the intermediate states of start() and stop() included,
\* the connection status is one of the five states of the connection table.
C25_StatusInTable ==
    status \in {"Disconnected", "Connecting", "Connected", "Reconnecting", "Error"}

\* C26: every change of the connection status is a transition of the table
\* (Disconnected -> Connecting; Connecting -> Connected, Error; Connected ->
\* Reconnecting, Disconnected; Reconnecting -> Connecting; Error -> Reconnecting,
\* Disconnected); in particular Error is not followed directly by Connecting, nor
\* Connected by Connecting.  Checked on the changes made while the session is
\* running and no start() or stop() is in progress.
C26_FollowsTable ==
    [][(status' # status /\ running /\ Quiet /\ Quiet')
          => <<status, status'>> \in
               {<<"Disconnected", "Connecting">>,
                <<"Connecting", "Connected">>, <<"Connecting", "Error">>,
                <<"Connected", "Reconnecting">>, <<"Connected", "Disconnected">>,
                <<"Reconnecting", "Connecting">>,
                <<"Error", "Reconnecting">>, <<"Error", "Disconnected">>}]_vars

\* C27: once start() has installed a new session, no step of a unit launched by
\* an earlier start() changes the status, error_count, message_count or latest
\* price the client reports.
C27_SupersededUnitSilent ==
    [][\A u \in Units :
         ( /\ IsWM /\ thread # None /\ u # thread /\ units[u].pc # "unborn"
           /\ running /\ Quiet
           /\ \/ UnitProgress(u) \/ WM_closed_ok(u) \/ WM_connection_closed(u)
              \/ \E kind \in FrameKinds : WM_receive(u, kind) )
         => UNCHANGED wmvars]_vars

\* C28: the backoff wait is interruptible: in the step in which stop() (called by
\* the UI or by start()) has done its signalling, every unit that is waiting out
\* a backoff delay gets the Event it waits on set, or a callback that will set it
\* scheduled on a running loop; so it leaves the wait without the delay elapsing.
C28_BackoffInterruptible ==
    [][(\E c \in Contexts :
           IF IsPS THEN fg[c].pc = "idle" /\ fg'[c].pc = "stop_reset"
                   ELSE fg[c].pc = "stop_reset" /\ fg'[c].pc # "stop_reset")
       => \A u \in Units :
            units'[u].pc = "backoff"
            => \/ units'[u].waiton # None /\ units'[units'[u].waiton].ev
               \/ /\ units'[u].waiton # None
                  /\ \E v \in Units :
                       /\ units'[v].pc \in AwaitPcs
                       /\ \E i \in 1 .. Len(units'[v].cbs) :
                            IF IsWM THEN units'[v].cbs[i] = units'[u].waiton
                            ELSE units'[v].cbs[i] = "set_stop_event"
                                 /\ stop_event' = units'[u].waiton]_vars

\* C29: a unit nobody asked to stop (no stop() since its launch, its symbol still
\* the current one, its session running, its task not cancelled) whose backoff
\* wait ends with the Event not set goes back to the top of its loop, and from
\* there on to a new connection attempt for its symbol: it does not leave the
\* reconnect loop.
C29_ReconnectsAfterBackoff ==
    [][\A u \in Units :
         ( /\ running /\ ~units[u].told /\ units[u].sym = Lower(current_symbol)
           /\ ~units[u].cancelled
           /\ units'[u].pc # units[u].pc )
         => /\ (units[u].pc = "backoff" /\ ~IsSet(units[u].waiton))
                 => units'[u].pc = "loop_top"
            /\ (units[u].pc = "loop_top" /\ units[u].streak > 0)
                 => units'[u].pc = "connecting" /\ units'[u].sym = units[u].sym]_vars

\* C30: the connections delivering their frames in event-time order, the
\* timestamps get_series() returns are always non-decreasing.
C30_TimestampsOrdered ==
    \A i \in 1 .. Len(price_data) : \A j \in i .. Len(price_data) :
        price_data[i].t <= price_data[j].t

\* C31: every sample in the buffer has a strictly positive price: a frame that
\* parses but carries a price of zero or less is not appended.
C31_PricesPositive == \A i \in 1 .. Len(price_data) : price_data[i].p > 0

\* C32: while a session is running and its unit has installed its handles (its
\* task has not finished), the client's loop and stop-event handles are that
\* unit's, and its loop is open: no unit of an earlier session resets, replaces
\* or closes them.
C32_HandlesOfSession ==
    ( /\ running /\ Quiet
      /\ thread # None /\ TaskAlive(thread) /\ units[thread].pc # "boot" )
    => /\ loop = thread
       /\ stop_event = thread
       /\ ~units[thread].closed

\* C33: a stop signal never reaches a later session: whenever a unit's stop
\* event becomes set, a stop() has been called since that unit was launched (the
\* signal scheduled by the stop() inside start(B), or by any earlier stop(),
\* never sets the Event of the unit launched for B).
C33_SignalStaysInSession ==
    [][\A v \in Units : (~units[v].ev /\ units'[v].ev) => units[v].told]_vars

\* C34: in WebSocketManager, whenever no frame is in the middle of being handled
\* and no start() or stop() is in progress, the buffer holds min(message_count, N)
\* samples: the counter counts the frames appended in the current session.
C34_CountMatchesBuffer ==
    ( /\ IsWM /\ Quiet
      /\ \A u \in Units : units[u].pc \notin {"handling", "counting"} )
    => Len(price_data) = Min(message_count, MaxPoints)

\* C35: of the PriceStreams the UI session has created, only the one it holds
\* can be running (a stream whose start() raised is discarded at once), so at
\* most one held stream runs; a new stream is created only with stop() called on
\* the one held before; after a call with an empty selection no stream is held
\* and none ever held runs; a call whose first symbol is the stored one, on a
\* running stream, creates and starts nothing.
C35_OneRunningStream ==
    [][/\ \A i \in 1 .. Len(rd'.streams) :
            rd'.streams[i].running => (i = rd'.price_stream \/ rd'.streams[i].failed)
       /\ Cardinality({i \in 1 .. Len(rd'.streams) :
                          rd'.streams[i].running /\ ~rd'.streams[i].failed}) <= 1
       /\ (Len(rd'.streams) > Len(rd.streams) /\ rd.price_stream # None)
            => /\ rd'.streams[rd.price_stream].told
               /\ ~rd'.streams[rd.price_stream].running
       /\ rd'.sel = <<>> => rd'.price_stream = None
       /\ ( /\ rd'.sel # <<>> /\ rd.price_stream # None
            /\ rd'.sel[1] = rd.current_symbol
            /\ rd.streams[rd.price_stream].running )
            => rd'.streams = rd.streams /\ rd'.price_stream = rd.price_stream]_vars

\* The session has switched symbol once: the first stream was stopped, the
\* second is held and runs.
C35_Witness ==
    /\ Len(rd.streams) = 2 /\ rd.price_stream = 2
    /\ rd.streams[1].told /\ ~rd.streams[1].running /\ ~rd.streams[1].failed
    /\ rd.streams[2].running /\ rd.streams[2].sym # NoSymbol

\* C36: func runs in a call only if no earlier call ran it or wait_time or more
\* has passed since the last call that ran it, so any two runs are wait_time or
\* more apart; a suppressed call returns None and leaves both the runs and the
\* start of the waiting period as they were.
C36_DebounceSpacing ==
    [][LET before == Executions(rd.log)
           after  == Executions(rd'.log)
       IN  /\ \A i \in 1 .. Len(after) : \A j \in i + 1 .. Len(after) :
                 after[j] - after[i] >= rd.wait_time
           /\ Len(after) > Len(before)
                 => /\ before = <<>> \/ rd.now - before[Len(before)] >= rd.wait_time
                    /\ rd'.res = "result"
           /\ (Len(rd'.log) > Len(rd.log) /\ after = before)
                 => /\ rd'.res = "None"
                    /\ rd'.last_called = rd.last_called
                    /\ before # <<>> /\ rd.last_called = before[Len(before)]]_vars

\* func ran, a call was suppressed a tick later, and func ran again exactly
\* wait_time after its first run.
C36_Witness ==
    /\ rd.wait_time = 2 /\ Len(rd.log) = 3
    /\ rd.log[1].ran /\ ~rd.log[2].ran /\ rd.log[3].ran
    /\ rd.log[2].t = rd.log[1].t + 1
    /\ rd.log[3].t = rd.log[1].t + 2
    /\ rd.res = "result"

\* C37: a call of get_symbol_price makes at most 3 requests and no exception
\* leaves it: it returns None, or a strictly positive price, and that price is
\* the one of the first reply that was an answer.
C37_PriceOrNone ==
    /\ rd.requests <= 3
    /\ rd.res \in {"none", "None", "price"}
    /\ (rd.pc = "idle" /\ rd.res = "price")
         => /\ lim.http[rd.requests] = "price"
            /\ \A i \in 1 .. rd.requests - 1 : ReplyOutcome(lim.http[i]) = "RequestException"

\* C38: the last update recorded for a symbol has been returned by some
\* get_websocket_updates() call, or is still pending in the dict (and then
\* has_websocket_updates() is true): draining loses no update, however its two
\* steps interleave with the background unit.
C38_DrainLosesNothing ==
    \A s \in Symbols :
        rd.latest[s] # 0 =>
            \/ rd.latest[s] \in rd.delivered
            \/ rd.D[s] = rd.latest[s] /\ has_websocket_updates

=============================================================================
